---------------------------- MODULE Spec2Model ----------------------------
(***************************************************************************)
(* dccbot: the IRC session (dccbot/ircbot.py), the DCC connection          *)
(* (dccbot/aiodcc.py) and the session manager (dccbot/manager.py) as one   *)
(* state machine.  One IRC session (server "s1") is modelled; the manager  *)
(* registry `bots` says whether it exists.  Transfer records are Python    *)
(* dicts shared by reference between bot.current_transfers and             *)
(* manager.transfers: here every record lives in `rec` under a stable      *)
(* index, and both collections hold indices.  A DCC connection object is   *)
(* identified by the index of the record it was created for.               *)
(* Time is a discrete clock that advances when the cleanup loop's          *)
(* one-second sleep ends.  The progress-logging fields of a record         *)
(* (percent and the last_progress pair) only feed log lines and are left   *)
(* out.                                                                    *)
(***************************************************************************)
EXTENDS Integers, Sequences, FiniteSets, TLC

\* ------------------------------------------------------------------ bounds
MaxRec == 2            \* transfer records ever created
MaxTime == 3           \* the clock stops here
MaxBytes == 4          \* a record receives chunks while bytes_received < MaxBytes
MaxQueue == 2          \* commands waiting in command_queue
MaxResume == 2         \* resume offers pending per nick

\* ----------------------------------------------------- configuration values
\* (manager.config; timeouts are in clock ticks)
resume_timeout == 1
server_idle_timeout == 2
channel_idle_timeout == 1
transfer_list_timeout == 2
max_file_size == 4097         \* with max_file_size_hi: 2^32 + 4097 bytes
max_file_size_hi == 1
allow_private_ips == FALSE

\* ------------------------------------------------------- program constants
TickleBytes == 4096        \* local_size -= 4096 for an already complete file
MinOfferPort == 1
MinAcceptPort == 1024
MaxPort == 65535
MaxJoinPolls == 10
AnnounceWindow == 30
WideAckFrom == 1           \* size >= 1024 * 1024 * 1024 * 4: a size_hi of 1 or more
NarrowAck == 4             \* struct.pack("!I", ...)
WideAck == 8               \* struct.pack("!Q", ...)

\* ------------------------------------------------------------ input domains
Server == "s1"
Servers == {"s1", "s2"}            \* "s2" never has a session
Nicks == {"n1", "n2"}
Files == {"f1"}
Channels == {"#a"}
OwnNick == "dccbot"
ChunkLens == {1, 2}
Absent == -1                       \* a missing dict key / a missing file
NoTime == -1000                    \* `completed` holding a bool, read as a time

\* A local path: the download path joined with the file name, with or without
\* the configured incomplete suffix.
Path(f, part) == <<f, part>>
Paths == {Path(f, p) : f \in Files, p \in BOOLEAN}

VARIABLES
    now,                \* time.time()
    incomplete_suffix,  \* config["incomplete_suffix"] is set
    allowed_mimetypes,  \* config["allowed_mimetypes"] is non-empty
    server_config,      \* config["servers"]["s1"]: nickserv_password set, channels
    bots,               \* manager.bots (its keys)
    irc_connected,      \* the session's IRC connection is up
    consumer,           \* process_command_queue task: its position
    joined_channels,    \* bot.joined_channels: channel -> last active
    banned_channels,    \* bot.banned_channels
    bot_channel_map,    \* bot.bot_channel_map: nick -> set of channels
    command_queue,      \* bot.command_queue
    resume_queue,       \* bot.resume_queue: nick -> list of resume tuples
    current_transfers,  \* bot.current_transfers: its keys, in insertion order
    last_active,        \* bot.last_active
    authenticated,      \* bot.authenticated
    rec,                \* every transfer dict ever created, by index
    transfers,          \* manager.transfers: filename -> list of record indices
    md5_check_queue,    \* manager.md5_check_queue
    dcc,                \* per record, its DCC connection: "new" | "open" | "failed" |
                        \* "closed", or "none" for a record that has none yet
    disk,               \* path -> file length, Absent when there is no file
    join_sent,          \* IRC server: JOIN requests it has not answered yet
    member,             \* IRC server: the channels the agent is in
    part_echo,          \* IRC server: PARTs whose echo is still to arrive
    md5_worker,         \* check_queue_processor: the job being hashed, and the
                        \* queue's count of jobs not yet marked done
    connecting,         \* the get_bot call suspended in `await bot.connect()`:
                        \* "no", or its bot is "registered" or was "swept"
    irc_out,            \* what the last handler sent on the IRC connection
    acks,               \* the acks the last handler sent on a DCC connection
    log                 \* the last handler and its outcome

vars == <<now, incomplete_suffix, allowed_mimetypes, server_config, bots, irc_connected, consumer,
          joined_channels, banned_channels, bot_channel_map, command_queue,
          resume_queue, current_transfers, last_active, authenticated, rec,
          transfers, md5_check_queue, dcc, disk, join_sent, member, part_echo,
          connecting, md5_worker, irc_out, acks, log>>

\* --------------------------------------------------------------- dict helpers
Put(f, k, v) == [x \in DOMAIN f \cup {k} |-> IF x = k THEN v ELSE f[x]]
Del(f, k) == [x \in DOMAIN f \ {k} |-> f[x]]
Get(f, k, d) == IF k \in DOMAIN f THEN f[k] ELSE d
RemoveAt(s, i) == [j \in 1..(Len(s) - 1) |-> IF j < i THEN s[j] ELSE s[j + 1]]
Range(s) == {s[i] : i \in DOMAIN s}
RemoveVal(s, v) == SelectSeq(s, LAMBDA x : x # v)
Empty == [x \in {} |-> 0]

\* str.lower() on the names that occur
Lower(x) == IF x = "#A" THEN "#a" ELSE IF x = "N1" THEN "n1" ELSE x

Terminal == {"completed", "failed", "error", "cancelled"}

\* ------------------------------------------------------------ transfer dicts
\* The dict built by init_dcc_connection.  Keys it does not set ("error",
\* "connected", "md5", "file_md5") are absent: "absent", and FALSE for
\* connected, which the code only reads through .get("connected", False).
\* `completed` holds a bool or, once finalized, a time: completed is its truth
\* value and completed_at the time (NoTime while it holds a bool).
\* A declared size is held as two numbers, size_hi * 2^32 + size with
\* size < 2^32, because 2^32 is beyond the 32-bit integers of TLC.
TransferItem(nick, addr, port, filename, path, size_hi, size, offset, ssl, completed) ==
    [nick |-> nick, server |-> Server, peer_address |-> addr, peer_port |-> port,
     file_path |-> path, filename |-> filename, start_time |-> now,
     bytes_received |-> 0, offset |-> offset, size_hi |-> size_hi, size |-> size,
     ssl |-> ssl,
     completed |-> completed, completed_at |-> NoTime, status |-> "started",
     error |-> "absent", connected |-> FALSE, md5 |-> "absent",
     file_md5 |-> "absent"]

\* The dict appended by on_privmsg for a "Sending you pack" announcement.
AnnounceItem(nick, md5) ==
    [nick |-> nick, server |-> Server, peer_address |-> "absent", peer_port |-> Absent,
     file_path |-> Path("absent", FALSE), filename |-> "absent", start_time |-> now,
     bytes_received |-> Absent, offset |-> Absent, size_hi |-> Absent,
     size |-> Absent, ssl |-> FALSE,
     completed |-> FALSE, completed_at |-> NoTime, status |-> "absent",
     error |-> "absent", connected |-> FALSE, md5 |-> md5, file_md5 |-> "absent"]

\* item.update(transfer_item): every key of the new dict overwrites, the others stay.
UpdateItem(old, new) ==
    [new EXCEPT !.error = old.error, !.connected = old.connected,
                !.md5 = old.md5, !.file_md5 = old.file_md5]

\* The mutable objects a DCC handler reaches, threaded through nested calls
\* (on_dccmsg and cancel_transfer call dcc.disconnect(), which dispatches
\* on_dcc_disconnect synchronously).  raised: an exception is propagating.
World == [rec |-> rec, ct |-> current_transfers, dcc |-> dcc, disk |-> disk,
          jc |-> joined_channels, raised |-> FALSE]

\* "update timeout": refresh joined_channels for the channels mapped to a nick.
Touch(jc, nick) ==
    LET key == Lower(nick) IN
    IF key \in DOMAIN bot_channel_map
    THEN [c \in DOMAIN jc \cup bot_channel_map[key] |->
             IF c \in bot_channel_map[key] THEN now ELSE jc[c]]
    ELSE jc

\* Variant of SizeMismatch: every existing file passes.
SizeMismatchNever(file_size, size_hi, size) == FALSE

\* file_size != transfer["size"]
SizeMismatch(file_size, size_hi, size) == file_size # size \/ size_hi # 0

\* f"size mismatch {file_size} != {transfer['size']}", for sizes below 2^32
MismatchError(file_size, size) ==
    "size mismatch " \o ToString(file_size) \o " != " \o ToString(size)

\* IRCBot.on_dcc_disconnect
on_dcc_disconnect(W, i) ==
    IF i \notin Range(W.ct) THEN W
    ELSE
    LET r0 == [W.rec[i] EXCEPT !.connected = FALSE]
        jc1 == Touch(W.jc, r0.nick)
        p == r0.file_path
        target == Path(p[1], FALSE)
        renamed == incomplete_suffix /\ p[2]
    IN  IF W.disk[p] = Absent
        THEN [W EXCEPT !.jc = jc1, !.ct = RemoveVal(W.ct, i),
                       !.rec[i] = IF r0.status # "error"
                                  THEN [r0 EXCEPT !.status = "error",
                                                  !.error = "does not exist"]
                                  ELSE r0]
        ELSE IF SizeMismatch(W.disk[p], r0.size_hi, r0.size)
        THEN [W EXCEPT !.jc = jc1, !.ct = RemoveVal(W.ct, i),
                       !.rec[i] = IF r0.status # "error"
                                  THEN [r0 EXCEPT !.status = "failed",
                                                  !.error =
                                                     MismatchError(W.disk[p], r0.size)]
                                  ELSE r0]
        ELSE IF r0.md5 # "absent"
        \* loop.run_until_complete on the running loop raises RuntimeError:
        \* the rename and the del are not reached
        THEN [W EXCEPT !.jc = jc1, !.raised = TRUE,
                       !.rec[i] = [r0 EXCEPT !.completed = TRUE, !.completed_at = now,
                                             !.status = "completed"]]
        ELSE [W EXCEPT !.jc = jc1, !.ct = RemoveVal(W.ct, i),
                       !.disk = IF renamed
                                THEN [W.disk EXCEPT ![target] = W.disk[p], ![p] = Absent]
                                ELSE W.disk,
                       !.rec[i] = [r0 EXCEPT !.completed = TRUE, !.completed_at = now,
                                             !.status = "completed",
                                             !.file_path = IF renamed THEN target ELSE p]]

\* AioDCCConnection.disconnect.  `del self.connected` fails, and the call
\* returns, unless connect() has set the attribute; close_raises: the
\* transport's close() raises.
DccDisconnect(W, i, close_raises) ==
    IF W.dcc[i] \in {"new", "closed"} THEN W
    ELSE IF W.dcc[i] = "failed" \/ close_raises
    THEN [W EXCEPT !.dcc[i] = "closed", !.raised = TRUE]
    ELSE on_dcc_disconnect([W EXCEPT !.dcc[i] = "closed"], i)

\* ------------------------------------------------------------- DCC SEND offer
\* A CTCP DCC SEND/SSEND payload after shlex.split: argc parts, the address as
\* "public" | "private" | "invalid", the file name, and port and size as the
\* integers int() yields (numeric = FALSE: int() raises ValueError).
Offer(argc, addr, fname, numeric, port, size) ==
    [argc |-> argc, addr |-> addr, fname |-> fname, numeric |-> numeric,
     port |-> port, size_hi |-> 0, size |-> size]
\* an offer of hi * 2^32 + lo bytes
BigOffer(port, hi, lo) ==
    [Offer(5, "public", "f1", TRUE, port, lo) EXCEPT !.size_hi = hi]
GoodOffers == {Offer(5, "public", f, TRUE, p, sz) :
                  f \in Files, p \in {1000, 5000}, sz \in {2, 4097}}
BadOffers == {Offer(4, "public", "f1", TRUE, 5000, 2),
              Offer(5, "invalid", "f1", TRUE, 5000, 2),
              Offer(5, "private", "f1", TRUE, 5000, 2),
              Offer(5, "public", "../f1", TRUE, 5000, 2),
              Offer(5, "public", "f1", FALSE, 5000, 2),
              Offer(5, "public", "f1", TRUE, 0, 2),
              Offer(5, "public", "f1", TRUE, 65536, 2),
              Offer(5, "public", "f1", TRUE, 5000, 0),
              BigOffer(5000, 1, 4098)}
Offers == GoodOffers \cup BadOffers

\* IRCBot.is_valid_filename on the names that occur
is_valid_filename(fname) == fname \notin {"", "../f1"}

\* Variant of OfferVerdict: the check without the tests on the port.
OfferVerdictAnyPort(o) ==
    IF o.argc < 5 THEN "not enough arguments"
    ELSE IF o.addr = "invalid" THEN "invalid ip"
    ELSE IF o.addr = "private" /\ ~allow_private_ips THEN "private ip"
    ELSE IF ~is_valid_filename(o.fname) THEN "invalid filename"
    ELSE IF ~o.numeric THEN "invalid size or port"
    ELSE IF o.size_hi = 0 /\ o.size < 1 THEN "invalid size"
    ELSE IF \/ o.size_hi > max_file_size_hi
            \/ o.size_hi = max_file_size_hi /\ o.size > max_file_size
         THEN "too large"
    ELSE "ok"

\* on_dcc_send up to the size checks: "ok" or the warning logged on return
OfferVerdict(o) ==
    IF o.argc < 5 THEN "not enough arguments"
    ELSE IF o.addr = "invalid" THEN "invalid ip"
    ELSE IF o.addr = "private" /\ ~allow_private_ips THEN "private ip"
    ELSE IF ~is_valid_filename(o.fname) THEN "invalid filename"
    ELSE IF ~o.numeric THEN "invalid size or port"
    ELSE IF o.port = 0 THEN "passive"
    ELSE IF o.port < MinOfferPort \/ o.port > MaxPort THEN "invalid port"
    ELSE IF o.size_hi = 0 /\ o.size < 1 THEN "invalid size"
    ELSE IF \/ o.size_hi > max_file_size_hi
            \/ o.size_hi = max_file_size_hi /\ o.size > max_file_size
         THEN "too large"
    ELSE "ok"

Min(S) == CHOOSE x \in S : \A y \in S : x <= y

\* "check if transfer for same file already running": the first item of
\* transfers[filename] that ends the loop.  item["size"] raises KeyError on a
\* dict without that key.
DupCheck(fname, size_hi, size) ==
    LET lst == Get(transfers, fname, <<>>)
        stop == {k \in DOMAIN lst :
                    \/ rec[lst[k]].size = Absent
                    \/ /\ rec[lst[k]].size = size /\ rec[lst[k]].size_hi = size_hi
                       /\ rec[lst[k]].connected}
    IN  IF stop = {} THEN "ok"
        ELSE IF rec[lst[Min(stop)]].size = Absent THEN "KeyError"
        ELSE "already in progress"

LocalFiles(fname) ==
    IF incomplete_suffix THEN <<Path(fname, FALSE), Path(fname, TRUE)>>
    ELSE <<Path(fname, FALSE)>>

\* the first of local_files that exists, 0 when none does
FirstExisting(fname) ==
    LET lf == LocalFiles(fname)
        ex == {k \in DOMAIN lf : disk[lf[k]] # Absent}
    IN  IF ex = {} THEN 0 ELSE Min(ex)

\* Variant of ResumeItem: the tuple with a resume position of 0.
ResumeItemFromStart(addr, port, fname, path, size_hi, size, local_size, ssl, completed) ==
    [peer_address |-> addr, peer_port |-> port, filename |-> fname,
     download_path |-> path, size_hi |-> size_hi, size |-> size, local_size |-> 0,
     ssl |-> ssl, completed |-> completed, offered_at |-> now]

\* the tuple on_dcc_send appends to resume_queue[nick]
ResumeItem(addr, port, fname, path, size_hi, size, local_size, ssl, completed) ==
    [peer_address |-> addr, peer_port |-> port, filename |-> fname,
     download_path |-> path, size_hi |-> size_hi, size |-> size,
     local_size |-> local_size,
     ssl |-> ssl, completed |-> completed, offered_at |-> now]

IrcMsg(kind, to, port, pos) == [kind |-> kind, to |-> to, port |-> port, pos |-> pos]

\* IRCBot.init_dcc_connection
init_dcc_connection(nick, addr, port, fname, path, size_hi, size, offset, ssl, completed) ==
    LET item == TransferItem(nick, addr, port, fname, path, size_hi, size, offset, ssl,
                             completed)
        lst == Get(transfers, fname, <<>>)
        cands == {k \in DOMAIN lst :
                     /\ rec[lst[k]].peer_address = "absent"
                     /\ rec[lst[k]].start_time >= now - AnnounceWindow
                     /\ rec[lst[k]].nick = nick
                     /\ rec[lst[k]].server = Server}
    IN  IF cands # {}
        THEN LET i == lst[Min(cands)] IN
             /\ rec' = [rec EXCEPT ![i] = UpdateItem(rec[i], item)]
             /\ transfers' = transfers
             /\ current_transfers' = Append(current_transfers, i)
             /\ dcc' = [dcc EXCEPT ![i] = "new"]
        ELSE /\ Len(rec) < MaxRec
             /\ rec' = Append(rec, item)
             /\ transfers' = Put(transfers, fname, Append(lst, Len(rec) + 1))
             /\ current_transfers' = Append(current_transfers, Len(rec) + 1)
             /\ dcc' = Append(dcc, "new")

cfgVars == <<incomplete_suffix, allowed_mimetypes, server_config>>
ircVars == <<bots, irc_connected, consumer, banned_channels, bot_channel_map,
             command_queue, authenticated, join_sent, member, part_echo>>

\* IRCBot.on_ctcp for a DCC SEND / SSEND payload, through IRCBot.on_dcc_send
on_dcc_send(nick, o, use_ssl) ==
    LET v == OfferVerdict(o)
        d == IF v = "ok" THEN DupCheck(o.fname, o.size_hi, o.size) ELSE v
        k == FirstExisting(o.fname)
        lf == LocalFiles(o.fname)
        found == disk[lf[k]]
        completed == o.size_hi = 0 /\ found = o.size
        local_size == IF completed THEN found - TickleBytes ELSE found
    IN
    /\ Server \in bots /\ irc_connected
    /\ last_active' = now
    /\ joined_channels' = Touch(joined_channels, nick)
    /\ acks' = <<>>
    /\ UNCHANGED <<now, cfgVars, connecting, md5_worker, ircVars, md5_check_queue, disk>>
    /\ IF d # "ok"
       THEN /\ log' = [op |-> "on_dcc_send", res |-> d]
            /\ irc_out' = <<>>
            /\ UNCHANGED <<rec, transfers, current_transfers, dcc, resume_queue>>
       ELSE IF k = 0
       THEN /\ init_dcc_connection(nick, o.addr, o.port, o.fname, lf[Len(lf)],
                                   o.size_hi, o.size, 0, use_ssl, FALSE)
            /\ log' = [op |-> "on_dcc_send", res |-> "connect"]
            /\ irc_out' = <<>>
            /\ UNCHANGED resume_queue
       ELSE IF o.size_hi = 0 /\ found > o.size
       THEN /\ log' = [op |-> "on_dcc_send", res |-> "local file larger"]
            /\ irc_out' = <<>>
            /\ UNCHANGED <<rec, transfers, current_transfers, dcc, resume_queue>>
       ELSE /\ Len(Get(resume_queue, nick, <<>>)) < MaxResume
            /\ irc_out' = <<IrcMsg("DCC RESUME", nick, o.port, local_size)>>
            /\ resume_queue' = Put(resume_queue, nick,
                   Append(Get(resume_queue, nick, <<>>),
                          ResumeItem(o.addr, o.port, o.fname, lf[k], o.size_hi,
                                     o.size, local_size, use_ssl, completed)))
            /\ log' = [op |-> "on_dcc_send", res |-> "resume"]
            /\ UNCHANGED <<rec, transfers, current_transfers, dcc>>

\* IRCBot.on_privmsg for a message '** Sending you pack #n ("fname") [...,
\* MD5:md5]': the announcement is appended to transfers[fname].
Md5s == {"82ce"}
on_privmsg(nick, fname, md5) ==
    /\ Server \in bots /\ irc_connected
    /\ Len(rec) < MaxRec
    /\ last_active' = now
    /\ rec' = Append(rec, AnnounceItem(nick, md5))
    /\ transfers' = Put(transfers, fname, Append(Get(transfers, fname, <<>>), Len(rec) + 1))
    /\ dcc' = Append(dcc, "none")
    /\ log' = [op |-> "on_privmsg", res |-> "announced"]
    /\ irc_out' = <<>> /\ acks' = <<>>
    /\ UNCHANGED <<now, cfgVars, connecting, md5_worker, ircVars, joined_channels, resume_queue,
                   current_transfers, md5_check_queue, disk>>

\* the window of on_privmsg's "Transfer Completed" branch, in seconds
Md5Window == 30

\* on_privmsg, "Transfer Completed" branch: the records that get the md5.  The
\* break leaves the loop over one file name's list only, so each file name
\* contributes the first record of its list that matches.
Md5Hits(nick) ==
    LET match(i) == /\ rec[i].nick = nick /\ rec[i].server = Server
                    /\ rec[i].completed /\ rec[i].completed_at >= now - Md5Window
                    /\ rec[i].md5 = "absent"
        first(f) == {transfers[f][k] : k \in {k \in DOMAIN transfers[f] :
                        /\ match(transfers[f][k])
                        /\ \A h \in 1..(k - 1) : ~match(transfers[f][h])}}
    IN  UNION {first(f) : f \in DOMAIN transfers}

\* IRCBot.on_privmsg for '** Transfer Completed ... md5sum: <hex>'.  The jobs
\* are queued in the order of the dict's keys, which transfers does not keep:
\* any order.
on_privmsg_completed(nick, md5) ==
    LET hits == Md5Hits(nick) IN
    /\ Server \in bots /\ irc_connected
    /\ last_active' = now
    /\ rec' = [i \in DOMAIN rec |-> IF i \in hits THEN [rec[i] EXCEPT !.md5 = md5]
                                    ELSE rec[i]]
    /\ \E q \in [1..Cardinality(hits) -> hits] :
          /\ \A a, b \in DOMAIN q : a # b => q[a] # q[b]
          /\ md5_check_queue' = md5_check_queue \o q
    /\ md5_worker' = [md5_worker EXCEPT !.unfinished = @ + Cardinality(hits)]
    /\ log' = [op |-> "on_privmsg", res |-> "completed"]
    /\ irc_out' = <<>> /\ acks' = <<>>
    /\ UNCHANGED <<now, cfgVars, connecting, ircVars, joined_channels, resume_queue,
                   current_transfers, transfers, dcc, disk>>

\* check_queue_processor: md5_check_queue.get() returns a job and the hashing
\* starts in the executor
md5_get ==
    /\ md5_worker.job = Absent /\ md5_check_queue # <<>>
    /\ md5_worker' = [md5_worker EXCEPT !.job = Head(md5_check_queue)]
    /\ md5_check_queue' = Tail(md5_check_queue)
    /\ log' = [op |-> "check_queue_processor", res |-> "hashing"]
    /\ irc_out' = <<>> /\ acks' = <<>>
    /\ UNCHANGED <<now, cfgVars, connecting, ircVars, joined_channels, resume_queue,
                   current_transfers, last_active, rec, transfers, dcc, disk>>

\* Variant of md5_done: task_done() on the success path only.
md5_done_unmarked(ok) ==
    LET job == md5_worker.job
        lst == Get(transfers, rec[job].filename, <<>>)
        noid == {k \in DOMAIN lst : rec[lst[k]].peer_address = "absent"}
        stop == IF noid = {} THEN Len(lst) + 1 ELSE Min(noid)
        found == \E k \in 1..(stop - 1) : lst[k] = job
    IN
    /\ job # Absent
    /\ md5_worker' = [job |-> Absent,
                      unfinished |-> IF ok /\ noid = {} THEN md5_worker.unfinished - 1
                                     ELSE md5_worker.unfinished]
    /\ rec' = IF ok /\ found THEN [rec EXCEPT ![job].file_md5 = "digest"] ELSE rec
    /\ log' = [op |-> "check_queue_processor",
               res |-> IF ~ok THEN "hash failed"
                       ELSE IF noid # {} THEN "KeyError" ELSE "done"]
    /\ irc_out' = <<>> /\ acks' = <<>>
    /\ UNCHANGED <<now, cfgVars, connecting, ircVars, joined_channels, resume_queue,
                   current_transfers, last_active, transfers, md5_check_queue, dcc, disk>>

\* check_queue_processor: the hashing ends (ok) or raises; the digest goes to
\* the record of the job's file name whose id is the job's; a record without
\* "id" (an announcement) met on the way raises KeyError; task_done()
md5_done(ok) ==
    LET job == md5_worker.job
        lst == Get(transfers, rec[job].filename, <<>>)
        noid == {k \in DOMAIN lst : rec[lst[k]].peer_address = "absent"}
        stop == IF noid = {} THEN Len(lst) + 1 ELSE Min(noid)
        found == \E k \in 1..(stop - 1) : lst[k] = job
    IN
    /\ job # Absent
    /\ md5_worker' = [job |-> Absent, unfinished |-> md5_worker.unfinished - 1]
    /\ rec' = IF ok /\ found THEN [rec EXCEPT ![job].file_md5 = "digest"] ELSE rec
    /\ log' = [op |-> "check_queue_processor",
               res |-> IF ~ok THEN "hash failed"
                       ELSE IF noid # {} THEN "KeyError" ELSE "done"]
    /\ irc_out' = <<>> /\ acks' = <<>>
    /\ UNCHANGED <<now, cfgVars, connecting, ircVars, joined_channels, resume_queue,
                   current_transfers, last_active, transfers, md5_check_queue, dcc, disk>>

\* ---------------------------------------------------------------- DCC ACCEPT
\* A CTCP DCC ACCEPT payload: matched = the regex (\d+) (\d+)$ matches, and
\* then port and pos are the two numbers (non-negative: \d+ has no sign).
Accept(matched, port, pos) == [matched |-> matched, port |-> port, pos |-> pos]
Accepts == {Accept(TRUE, p, q) : p \in {1000, 5000}, q \in {0, 1}}
               \cup {Accept(FALSE, 0, 0)}

\* Variant of MatchResume: the search on the port alone.
MatchResumeByPort(q, port, pos) ==
    LET hit == {k \in DOMAIN q : q[k].peer_port = port}
    IN  IF hit = {} THEN 0 ELSE Min(hit)

\* the for/else of on_dcc_accept: the index of the first queued item with this
\* port and resume position, 0 when there is none
MatchResume(q, port, pos) ==
    LET hit == {k \in DOMAIN q : q[k].peer_port = port /\ q[k].local_size = pos}
    IN  IF hit = {} THEN 0 ELSE Min(hit)

\* the port and resume_position checks of on_dcc_accept: TRUE = return
AcceptInvalid(a) ==
    \/ a.port < MinAcceptPort \/ a.port > MaxPort
    \/ a.pos < 1

\* IRCBot.on_ctcp for a DCC ACCEPT payload, through IRCBot.on_dcc_accept
on_dcc_accept(nick, a) ==
    LET q == resume_queue[nick]
        k == MatchResume(q, a.port, a.pos)
        item == q[k]
        rest == RemoveAt(q, k)
    IN
    /\ Server \in bots /\ irc_connected
    /\ last_active' = now
    /\ joined_channels' = Touch(joined_channels, nick)
    /\ acks' = <<>>
    /\ irc_out' = <<>>
    /\ UNCHANGED <<now, cfgVars, connecting, md5_worker, ircVars, md5_check_queue, disk>>
    /\ IF nick \notin DOMAIN resume_queue
       THEN /\ log' = [op |-> "on_dcc_accept", res |-> "not in queue"]
            /\ UNCHANGED <<rec, transfers, current_transfers, dcc, resume_queue>>
       ELSE IF ~a.matched
       THEN /\ log' = [op |-> "on_dcc_accept", res |-> "invalid command"]
            /\ UNCHANGED <<rec, transfers, current_transfers, dcc, resume_queue>>
       ELSE IF AcceptInvalid(a)
       THEN /\ log' = [op |-> "on_dcc_accept", res |-> "invalid port or position"]
            /\ UNCHANGED <<rec, transfers, current_transfers, dcc, resume_queue>>
       ELSE IF k = 0
       THEN /\ log' = [op |-> "on_dcc_accept", res |-> "unknown file"]
            /\ UNCHANGED <<rec, transfers, current_transfers, dcc, resume_queue>>
       ELSE /\ resume_queue' = IF rest = <<>> THEN Del(resume_queue, nick)
                               ELSE [resume_queue EXCEPT ![nick] = rest]
            /\ init_dcc_connection(nick, item.peer_address, a.port, item.filename,
                                   item.download_path, item.size_hi, item.size, a.pos,
                                   item.ssl,
                                   item.completed)
            /\ log' = [op |-> "on_dcc_accept", res |-> "connect"]

\* Variant of dcc_connect: a failure is only logged, as when connect() is
\* called without a transfer_item.
dcc_connect_unrecorded(i, ok) ==
    /\ i \in DOMAIN dcc /\ dcc[i] = "new"
    /\ dcc' = [dcc EXCEPT ![i] = IF ok THEN "open" ELSE "failed"]
    /\ rec' = rec
    /\ log' = [op |-> "dcc_connect", res |-> IF ok THEN "connected" ELSE "error"]
    /\ irc_out' = <<>> /\ acks' = <<>>
    /\ UNCHANGED <<now, cfgVars, connecting, md5_worker, ircVars, joined_channels, resume_queue,
                   current_transfers, last_active, transfers, md5_check_queue, disk>>

\* ------------------------------------------------------------- DCC connection
\* The task created by init_dcc_connection: AioDCCConnection.connect
dcc_connect(i, ok) ==
    /\ i \in DOMAIN dcc /\ dcc[i] = "new"
    /\ dcc' = [dcc EXCEPT ![i] = IF ok THEN "open" ELSE "failed"]
    /\ rec' = IF ok THEN rec
              ELSE [rec EXCEPT ![i].error = "connect failed", ![i].status = "error"]
    /\ log' = [op |-> "dcc_connect", res |-> IF ok THEN "connected" ELSE "error"]
    /\ irc_out' = <<>> /\ acks' = <<>>
    /\ UNCHANGED <<now, cfgVars, connecting, md5_worker, ircVars, joined_channels, resume_queue,
                   current_transfers, last_active, transfers, md5_check_queue, disk>>

\* Variant of AckWidth: every ack is packed with "!I".
AckWidthAlwaysNarrow(size_hi, size) == NarrowAck

\* The width in bytes of the ack on_dccmsg packs for a transfer of
\* size_hi * 2^32 + size bytes: "!Q" from 4 GiB on, "!I" below.
AckWidth(size_hi, size) ==
    IF size_hi >= WideAckFrom THEN WideAck ELSE NarrowAck

\* Variant of MimeChecked: no chunk is checked.
MimeCheckedNever(r) == FALSE

\* "Check MIME type after first chunk": the condition under which on_dccmsg
\* looks at the chunk's type
MimeChecked(r) ==
    ~r.completed /\ r.bytes_received = 0 /\ r.offset = 0 /\ allowed_mimetypes

\* the type mime_checker.from_buffer reports for a chunk that is not allowed
BadMime == "application/x-dosexec"

\* IRCBot.on_dccmsg for a chunk of n bytes.  mime_ok: the chunk's detected type
\* is allowed; write_ok: the append to the file succeeds; ack_ok: the
\* transport takes the ack (else send_bytes disconnects); close_raises as in
\* DccDisconnect.
DccMsg(W, i, n, mime_ok, write_ok, ack_ok, close_raises) ==
    LET r1 == [W.rec[i] EXCEPT !.connected = TRUE, !.status = "in_progress"]
        W1 == [W EXCEPT !.rec[i] = r1, !.jc = IF r1.completed THEN W.jc
                                               ELSE Touch(W.jc, r1.nick)]
        mime_checked == MimeChecked(r1)
        \* the MIME rejection
        Wm1 == DccDisconnect(W1, i, close_raises)
        Wm2 == [Wm1 EXCEPT !.rec[i].status = "error",
                           !.rec[i].error = "Invalid MIME type (" \o BadMime \o ")",
                           !.rec[i].connected = FALSE,
                           !.ct = RemoveVal(Wm1.ct, i)]
        \* the append, or its failure
        p == r1.file_path
        Wok == [W1 EXCEPT !.disk[p] = (IF W1.disk[p] = Absent THEN 0 ELSE W1.disk[p]) + n]
        Wf1 == DccDisconnect([W1 EXCEPT !.rec[i].status = "error",
                                        !.rec[i].error = "Error writing to file",
                                        !.rec[i].connected = FALSE], i, close_raises)
        Wf2 == [Wf1 EXCEPT !.ct = RemoveVal(Wf1.ct, i)]
        Ww == IF r1.completed THEN W1 ELSE IF write_ok THEN Wok ELSE Wf2
        \* bytes_received += len(data), then the ack
        Wb == [Ww EXCEPT !.rec[i].bytes_received = @ + n]
        Wa == IF ack_ok THEN Wb ELSE DccDisconnect(Wb, i, close_raises)
    IN  IF mime_checked /\ ~mime_ok
        THEN [w |-> IF Wm1.raised THEN Wm1 ELSE Wm2, acks |-> <<>>, res |-> "invalid mime"]
        ELSE IF ~r1.completed /\ ~write_ok /\ Wf1.raised
        THEN [w |-> Wf1, acks |-> <<>>, res |-> "raised"]
        ELSE [w |-> Wa,
              acks |-> <<[value |-> Wb.rec[i].bytes_received + Wb.rec[i].offset,
                          width |-> AckWidth(Wb.rec[i].size_hi, Wb.rec[i].size)]>>,
              res |-> IF ~r1.completed /\ ~write_ok THEN "write error" ELSE "chunk"]

worldVars == <<rec, current_transfers, dcc, disk, joined_channels>>

SetWorld(W) ==
    /\ rec' = W.rec
    /\ current_transfers' = W.ct
    /\ dcc' = W.dcc
    /\ disk' = W.disk
    /\ joined_channels' = W.jc

on_dccmsg(i, n, mime_ok, write_ok, ack_ok, close_raises) ==
    /\ i \in DOMAIN dcc /\ dcc[i] = "open"
    /\ rec[i].bytes_received < MaxBytes
    /\ irc_out' = <<>>
    /\ UNCHANGED <<now, cfgVars, connecting, md5_worker, ircVars, resume_queue, last_active, transfers,
                   md5_check_queue>>
    /\ IF i \notin Range(current_transfers)
       THEN /\ log' = [op |-> "on_dccmsg", res |-> "unknown connection"]
            /\ acks' = <<>>
            /\ UNCHANGED worldVars
       ELSE LET out == DccMsg(World, i, n, mime_ok, write_ok, ack_ok, close_raises) IN
            /\ SetWorld(out.w)
            /\ acks' = out.acks
            /\ log' = [op |-> "on_dccmsg", res |-> out.res]

\* The peer closes the data connection: the protocol's connection_lost calls
\* AioDCCConnection.disconnect, which dispatches on_dcc_disconnect.
peer_close(i) ==
    /\ i \in DOMAIN dcc /\ dcc[i] = "open"
    /\ LET W == DccDisconnect(World, i, FALSE) IN
       /\ SetWorld(W)
       /\ log' = [op |-> "on_dcc_disconnect",
                  res |-> IF W.raised THEN "raised" ELSE rec'[i].status]
    /\ irc_out' = <<>> /\ acks' = <<>>
    /\ UNCHANGED <<now, cfgVars, connecting, md5_worker, ircVars, resume_queue, last_active, transfers,
                   md5_check_queue>>

\* ------------------------------------------------------------------- manager
\* Variant of CancelMatch: the search without the status test.
CancelMatchAnyStatus(nick, fname) ==
    LET hit == {k \in DOMAIN current_transfers :
                   LET r == rec[current_transfers[k]] IN
                   r.filename = fname /\ r.nick = nick}
    IN  IF hit = {} THEN 0 ELSE current_transfers[Min(hit)]

\* cancel_transfer's search: the first key of bot.current_transfers whose dict
\* has this filename and nick and status in_progress; 0 when there is none
CancelMatch(nick, fname) ==
    LET hit == {k \in DOMAIN current_transfers :
                   LET r == rec[current_transfers[k]] IN
                   r.filename = fname /\ r.status = "in_progress" /\ r.nick = nick}
    IN  IF hit = {} THEN 0 ELSE current_transfers[Min(hit)]

\* Variant of Cancelled: the assignments without the one to status.
CancelledKeepingStatus(r) ==
    [r EXCEPT !.error = "Cancelled by user", !.connected = FALSE]

\* the three assignments that mark a dict cancelled
Cancelled(r) ==
    [r EXCEPT !.status = "cancelled", !.error = "Cancelled by user", !.connected = FALSE]

\* IRCBotManager.cancel_transfer; the result is log.res ("True" / "False")
cancel_transfer(server, nick, fname, close_raises) ==
    LET i == CancelMatch(nick, fname)
        W1 == DccDisconnect(World, i, close_raises)    \* any exception is swallowed
        r2 == [W1.rec EXCEPT ![i] = Cancelled(@)]
        lst == Get(transfers, fname, <<>>)
        also == {lst[k] : k \in {k \in DOMAIN lst :
                    r2[lst[k]].server = server /\ r2[lst[k]].status = "in_progress"
                       /\ r2[lst[k]].nick = nick}}
    IN
    /\ irc_out' = <<>> /\ acks' = <<>>
    /\ UNCHANGED <<now, cfgVars, connecting, md5_worker, ircVars, resume_queue, last_active, transfers,
                   md5_check_queue>>
    /\ IF server \notin bots \/ i = 0
       THEN /\ log' = [op |-> "cancel_transfer", res |-> "False"]
            /\ UNCHANGED worldVars
       ELSE /\ SetWorld([W1 EXCEPT
                   !.rec = [j \in DOMAIN r2 |-> IF j \in also THEN Cancelled(r2[j])
                                                ELSE r2[j]],
                   !.ct = RemoveVal(W1.ct, i)])
            /\ log' = [op |-> "cancel_transfer", res |-> "True"]

\* --------------------------------------------------------------- IRC session
\* server_config of "s1"
nickserv_password == server_config.nickserv_password
ConfigChannels == server_config.channels
also_join(c) == <<>>

Idle == [pc |-> "get", data |-> <<>>, waiting |-> {}, retry |-> 0]
NotStarted == [pc |-> "none", data |-> <<>>, waiting |-> {}, retry |-> 0]

\* Variant of HasConfig: every server name counts as configured.
HasConfigAlways(server) == TRUE

\* IRCBotManager.get_bot: is there a configuration for the server.  Only "s1"
\* has an entry in the servers section; there is no default_server_config.
HasConfig(server) == server = Server

\* What IRCBot.__init__ and the registration in get_bot leave behind.
Registered(server, connected) ==
    /\ bots' = bots \cup {server}
    /\ irc_connected' = connected
    /\ consumer' = NotStarted
    /\ joined_channels' = Empty
    /\ banned_channels' = {}
    /\ bot_channel_map' = Empty
    /\ command_queue' = <<>>
    /\ resume_queue' = Empty
    /\ current_transfers' = <<>>
    /\ last_active' = now
    /\ authenticated' = FALSE
    /\ join_sent' = {} /\ member' = {} /\ part_echo' = {}

sessionVars == <<bots, irc_connected, consumer, joined_channels,
                 banned_channels, bot_channel_map, command_queue,
                 resume_queue, current_transfers, last_active,
                 authenticated, join_sent, member, part_echo>>

\* IRCBotManager.get_bot for a server without a session: the IRCBot is
\* constructed and registered, then bot.connect() succeeds or fails (logged);
\* here no other task runs while connect() is awaited.
get_bot(server, ok) ==
    /\ server \notin bots
    /\ IF ~HasConfig(server)
       THEN /\ log' = [op |-> "get_bot", res |-> "No configuration found for server"]
            /\ UNCHANGED sessionVars
       ELSE /\ Registered(server, ok)
            /\ log' = [op |-> "get_bot", res |-> IF ok THEN "connected" ELSE "connection error"]
    /\ irc_out' = <<>> /\ acks' = <<>>
    /\ UNCHANGED <<now, cfgVars, connecting, md5_worker, rec, transfers, md5_check_queue, dcc, disk>>

\* IRCBotManager.get_bot for a server that has a session: the registered bot
\* is returned, nothing is constructed and connect() is not called.
get_bot_existing(server) ==
    /\ server \in bots
    /\ log' = [op |-> "get_bot", res |-> "existing"]
    /\ irc_out' = <<>> /\ acks' = <<>>
    /\ UNCHANGED <<now, cfgVars, connecting, md5_worker, sessionVars, rec, transfers,
                   md5_check_queue, dcc, disk>>

\* IRCBotManager.get_bot for a configured server without a session, up to the
\* point where `await bot.connect()` suspends: the bot is registered and not
\* yet connected, and other tasks run.  One such call is suspended at a time.
get_bot_begin(server) ==
    /\ server \notin bots /\ HasConfig(server)
    /\ connecting = "no"
    /\ Registered(server, FALSE)
    /\ connecting' = "registered"
    /\ log' = [op |-> "get_bot", res |-> "connecting"]
    /\ irc_out' = <<>> /\ acks' = <<>>
    /\ UNCHANGED <<now, cfgVars, md5_worker, rec, transfers, md5_check_queue, dcc, disk>>

\* The rest of that call: connect() ends, with the connection made or with the
\* error logged, and `return self.bots[server]` is evaluated.  When the idle
\* sweep removed the bot meanwhile, the connection belongs to a bot that is no
\* longer registered, and the lookup returns a newer session or raises KeyError.
get_bot_end(ok) ==
    /\ connecting # "no"
    /\ connecting' = "no"
    /\ IF connecting = "registered"
       THEN /\ irc_connected' = ok
            /\ log' = [op |-> "get_bot", res |-> IF ok THEN "connected" ELSE "connection error"]
       ELSE /\ UNCHANGED irc_connected
            /\ log' = [op |-> "get_bot",
                       res |-> IF Server \in bots THEN "newer session" ELSE "KeyError"]
    /\ irc_out' = <<>> /\ acks' = <<>>
    /\ UNCHANGED <<now, cfgVars, md5_worker, bots, consumer, joined_channels,
                   banned_channels, bot_channel_map, command_queue,
                   resume_queue, current_transfers, last_active,
                   authenticated, join_sent, member, part_echo, rec, transfers,
                   md5_check_queue, dcc, disk>>

\* A control command as the adapter queues it (channel and user names already
\* lower-cased by the adapter).
Command(c, chans, user, msg) == [command |-> c, channels |-> chans, user |-> user, message |-> msg]
Commands == {Command("send", <<"#a">>, "n1", "xdcc send 1"),
             Command("send", <<>>, "n1", "xdcc send 1"),
             Command("send", <<"#a">>, "", "xdcc send 1"),
             Command("part", <<"#a">>, "", ""),
             Command("join", <<"#a">>, "", "")}

\* IRCBot.queue_command
queue_command(data) ==
    /\ Server \in bots
    /\ Len(command_queue) < MaxQueue
    /\ command_queue' = Append(command_queue, data)
    /\ log' = [op |-> "queue_command", res |-> data.command]
    /\ irc_out' = <<>> /\ acks' = <<>>
    /\ UNCHANGED <<now, cfgVars, connecting, md5_worker, bots, irc_connected, consumer, joined_channels,
                   banned_channels, bot_channel_map, resume_queue, current_transfers,
                   last_active, authenticated, rec, transfers, md5_check_queue, dcc,
                   disk, join_sent, member, part_echo>>

\* ------------------------------------------------------- the msg endpoint
\* A message text is the sequence of its characters.
LowerChar(c) ==
    CASE c = "X" -> "x" [] c = "D" -> "d" [] c = "C" -> "c" [] c = "S" -> "s"
      [] c = "E" -> "e" [] c = "N" -> "n" [] c = "B" -> "b" [] c = "A" -> "a"
      [] c = "T" -> "t" [] c = "H" -> "h" [] OTHER -> c
LowerText(m) == [i \in DOMAIN m |-> LowerChar(m[i])]

\* the alternatives of the pattern r"^xdcc (send|batch) "
XdccSend == <<"x", "d", "c", "c", " ", "s", "e", "n", "d", " ">>
XdccBatch == <<"x", "d", "c", "c", " ", "b", "a", "t", "c", "h", " ">>
PrefixLen(m, ignore_case) ==
    LET t == IF ignore_case THEN LowerText(m) ELSE m
        fits(w) == Len(t) >= Len(w) /\ SubSeq(t, 1, Len(w)) = w
    IN  IF fits(XdccSend) THEN Len(XdccSend)
        ELSE IF fits(XdccBatch) THEN Len(XdccBatch)
        ELSE 0

\* re.match(r"^xdcc (send|batch) ", m, re.I)
ReMatch(m) == PrefixLen(m, TRUE) > 0

\* re.sub(r"^xdcc (send|batch) ", r"xdcc s\1 ", m, re.I): the fourth
\* positional parameter of re.sub is count, so re.I is taken as a count of 2
\* and the pattern is applied with no flag.  \1 is the verb as it was typed.
ReSub(m) ==
    LET n == PrefixLen(m, FALSE)
    IN  IF n = 0 THEN m
        ELSE <<"x", "d", "c", "c", " ", "s">> \o SubSeq(m, 6, Len(m))

RECURSIVE LStrip(_)
LStrip(m) == IF m # <<>> /\ Head(m) = " " THEN LStrip(Tail(m)) ELSE m
RECURSIVE RStrip(_)
RStrip(m) == IF m # <<>> /\ m[Len(m)] = " " THEN RStrip(SubSeq(m, 1, Len(m) - 1)) ELSE m
\* str.strip() for blanks
Strip(m) == RStrip(LStrip(m))

\* config "ssend_map" of the manager, and "rewrite_to_ssend" of the server entry
ssend_map == {"n1"}
rewrite_to_ssend ==
    IF "rewrite_to_ssend" \in DOMAIN server_config
    THEN server_config.rewrite_to_ssend ELSE {}

\* _clean_channel_list on the names that occur
CleanChannels(chans) == [i \in DOMAIN chans |-> Lower(chans[i])]

\* the message IRCBotAPI.msg puts into the command
Rewritten(user, chans, message) ==
    IF /\ \/ \E c \in Range(CleanChannels(chans)) : c \in rewrite_to_ssend
          \/ Lower(user) \in ssend_map
       /\ ReMatch(message)
    THEN ReSub(message)
    ELSE message

\* IRCBotAPI.msg for a request with user and message, for the server that has
\* a session (get_bot returns it)
api_msg(user, chans, message) ==
    queue_command(Command("send", CleanChannels(chans), Lower(user),
                          Strip(Rewritten(user, chans, message))))

MsgUsers == {"N1", "n2"}
MsgChannels == {<<>>, <<"#A">>, <<"#b">>}
Messages == {<<"x", "d", "c", "c", " ", "s", "e", "n", "d", " ", "1">>,
             <<"X", "D", "C", "C", " ", "S", "E", "N", "D", " ", "1">>,
             <<"x", "d", "c", "c", " ", "b", "a", "t", "c", "h", " ", "2">>,
             <<"X", "d", "c", "c", " ", "B", "a", "t", "c", "h", " ", "2">>,
             <<"x", "d", "c", "c", " ", "s", "s", "e", "n", "d", " ", "1">>,
             <<"x", "d", "c", "c", " ", "s", "e", "n", "d">>,
             <<"h", "i", " ">>}

\* IRCBot.join_channel for each of chans in turn: the channels a JOIN is sent
\* for, and the JOIN messages in order
JoinRequests(chans, jc) == {chans[k] : k \in {k \in DOMAIN chans :
                                chans[k] # "" /\ chans[k] \notin DOMAIN jc}}
JoinMsgs(chans, jc) ==
    LET sel == SelectSeq(chans, LAMBDA c : c # "" /\ c \notin DOMAIN jc)
    IN  [k \in DOMAIN sel |-> IrcMsg("JOIN", sel[k], Absent, Absent)]

\* the channels _join_channels handles: each listed channel, then its companions
RECURSIVE WithCompanions(_)
WithCompanions(chans) ==
    IF chans = <<>> THEN <<>>
    ELSE <<Head(chans)>> \o also_join(Head(chans)) \o WithCompanions(Tail(chans))

\* IRCBot.on_welcome: IDENTIFY when a password is configured, then the command
\* consumer task is created.
on_welcome ==
    /\ Server \in bots /\ irc_connected /\ consumer.pc = "none"
    /\ consumer' = [NotStarted EXCEPT !.pc = "start"]
    /\ irc_out' = IF nickserv_password
                  THEN <<IrcMsg("PRIVMSG IDENTIFY", "NickServ", Absent, Absent)>>
                  ELSE <<>>
    /\ log' = [op |-> "on_welcome", res |-> "ok"]
    /\ acks' = <<>>
    /\ UNCHANGED <<now, cfgVars, connecting, md5_worker, bots, irc_connected, joined_channels,
                   banned_channels, bot_channel_map, command_queue, resume_queue,
                   current_transfers, last_active, authenticated, rec, transfers,
                   md5_check_queue, dcc, disk, join_sent, member, part_echo>>

\* IRCBot.on_loggedin
on_loggedin ==
    /\ Server \in bots /\ irc_connected
    /\ authenticated' = TRUE
    /\ log' = [op |-> "on_loggedin", res |-> "ok"]
    /\ irc_out' = <<>> /\ acks' = <<>>
    /\ UNCHANGED <<now, cfgVars, connecting, md5_worker, bots, irc_connected, consumer, joined_channels,
                   banned_channels, bot_channel_map, command_queue, resume_queue,
                   current_transfers, last_active, rec, transfers,
                   md5_check_queue, dcc, disk, join_sent, member, part_echo>>

\* process_command_queue from its start: _handle_authentication blocks when a
\* password is configured and the login has not happened; otherwise a JOIN is
\* issued for every configured channel and the first command_queue.get() waits.
StartConsuming ==
    /\ consumer' = Idle
    /\ irc_out' = JoinMsgs(ConfigChannels, joined_channels)
    /\ join_sent' = join_sent \cup JoinRequests(ConfigChannels, joined_channels)
    /\ log' = [op |-> "process_command_queue", res |-> "started"]

\* Variant of MustWait: the consumer never waits.
MustWaitNever == FALSE

\* the condition of _handle_authentication
MustWait == nickserv_password /\ ~authenticated

consumer_start ==
    /\ Server \in bots /\ consumer.pc = "start"
    /\ IF MustWait
       THEN /\ consumer' = [consumer EXCEPT !.pc = "auth"]
            /\ irc_out' = <<>>
            /\ UNCHANGED join_sent
            /\ log' = [op |-> "process_command_queue", res |-> "waiting for NickServ"]
       ELSE StartConsuming
    /\ acks' = <<>>
    /\ UNCHANGED <<now, cfgVars, connecting, md5_worker, bots, irc_connected, joined_channels,
                   banned_channels, bot_channel_map, command_queue, resume_queue,
                   current_transfers, last_active, authenticated, rec, transfers,
                   md5_check_queue, dcc, disk, member, part_echo>>

\* the wait of _handle_authentication ends: the event was set, or (timed_out)
\* the 10 s wait_for expired
consumer_auth_done(timed_out) ==
    /\ Server \in bots /\ consumer.pc = "auth"
    /\ timed_out \/ authenticated
    /\ StartConsuming
    /\ acks' = <<>>
    /\ UNCHANGED <<now, cfgVars, connecting, md5_worker, bots, irc_connected, joined_channels,
                   banned_channels, bot_channel_map, command_queue, resume_queue,
                   current_transfers, last_active, authenticated, rec, transfers,
                   md5_check_queue, dcc, disk, member, part_echo>>

\* IRCBot._update_channel_mapping
UpdateChannelMapping(user, chans) ==
    LET m == Put(bot_channel_map, user, Get(bot_channel_map, user, {}) \cup Range(chans))
    IN  /\ bot_channel_map' = m
        /\ joined_channels' = [c \in DOMAIN joined_channels \cup m[user] |->
                                  IF c \in m[user] THEN now ELSE joined_channels[c]]

\* _handle_send_command after the join wait: the PRIVMSG, then the channel map
FinishSend(data) ==
    /\ irc_out' = <<IrcMsg("PRIVMSG", data.user, Absent, Absent)>>
    /\ IF data.channels # <<>>
       THEN UpdateChannelMapping(data.user, data.channels)
       ELSE UNCHANGED <<bot_channel_map, joined_channels>>
    /\ consumer' = Idle

\* IRCBot.part_channel for each of chans in turn (_handle_part_command)
PartChannels(chans) ==
    LET sel == SelectSeq(chans, LAMBDA c : c \in DOMAIN joined_channels) IN
    /\ irc_out' = [k \in DOMAIN sel |-> IrcMsg("PART", sel[k], Absent, Absent)]
    /\ joined_channels' = [c \in DOMAIN joined_channels \ Range(sel) |-> joined_channels[c]]
    /\ member' = member \ Range(sel)
    /\ part_echo' = part_echo \cup (Range(sel) \cap member)

\* Variant of NextCommand: the command queued last.
NextCommandNewest(q) == [at |-> Len(q), data |-> q[Len(q)]]

\* command_queue.get(): the command an asyncio.Queue hands out and its place
NextCommand(q) == [at |-> 1, data |-> q[1]]

\* process_command_queue: command_queue.get() returns, and the command is
\* handled up to its first sleep (the join wait of a send) or to its end.
consumer_get ==
    LET got == NextCommand(command_queue)
        data == got.data
        all == WithCompanions(data.channels)
    IN
    /\ Server \in bots /\ consumer.pc = "get" /\ command_queue # <<>>
    /\ command_queue' = RemoveAt(command_queue, got.at)
    /\ acks' = <<>>
    /\ log' = [op |-> "process_command_queue", res |-> data.command]
    /\ UNCHANGED <<now, cfgVars, connecting, md5_worker, bots, irc_connected, banned_channels, resume_queue,
                   current_transfers, authenticated, rec, transfers,
                   md5_check_queue, dcc, disk>>
    /\ IF data.command = "send" /\ data.user # "" /\ data.message # ""
       THEN /\ last_active' = now
            /\ UNCHANGED <<member, part_echo>>
            /\ IF data.channels # <<>>
               THEN /\ irc_out' = JoinMsgs(all, joined_channels)
                    /\ join_sent' = join_sent \cup JoinRequests(all, joined_channels)
                    /\ consumer' = [pc |-> "wait", data |-> data, retry |-> 0,
                                    waiting |-> Range(all) \ DOMAIN joined_channels]
                    /\ UNCHANGED <<bot_channel_map, joined_channels>>
               ELSE /\ FinishSend(data)
                    /\ UNCHANGED join_sent
       ELSE IF data.command = "part"
       THEN /\ PartChannels(data.channels)
            /\ last_active' = now
            /\ UNCHANGED <<consumer, bot_channel_map, join_sent>>
       ELSE /\ last_active' = now
            /\ irc_out' = <<>>
            /\ UNCHANGED <<consumer, bot_channel_map, joined_channels, join_sent,
                           member, part_echo>>

\* Variant of WaitGoesOn: the wait loop without its retry limit.
WaitGoesOnUnlimited(retry, waiting) == waiting # {}

\* _join_channels: `while retry < 10 and waiting_channels`, read after the
\* retry += 1 that follows a sleep
WaitGoesOn(retry, waiting) == retry + 1 < MaxJoinPolls /\ waiting # {}

\* _join_channels: one asyncio.sleep(1) of the wait loop ends
consumer_poll ==
    /\ Server \in bots /\ consumer.pc = "wait"
    /\ acks' = <<>>
    /\ UNCHANGED <<now, cfgVars, connecting, md5_worker, bots, irc_connected, banned_channels, command_queue,
                   resume_queue, current_transfers, last_active, authenticated, rec,
                   transfers, md5_check_queue, dcc, disk, join_sent, member, part_echo>>
    /\ IF WaitGoesOn(consumer.retry, consumer.waiting)
       THEN /\ consumer' = [consumer EXCEPT !.retry = @ + 1,
                                            !.waiting = @ \ DOMAIN joined_channels]
            /\ irc_out' = <<>>
            /\ log' = [op |-> "_join_channels", res |-> "waiting"]
            /\ UNCHANGED <<bot_channel_map, joined_channels>>
       ELSE /\ FinishSend(consumer.data)
            /\ log' = [op |-> "_join_channels",
                       res |-> IF consumer.waiting # {} THEN "failed to join" ELSE "joined"]

\* ---------------------------------------------------------------- IRC events
\* The IRC server answers a JOIN request with JOIN, 474 or 477, echoes a PART,
\* and reports what others do in the channels the agent is in.
ChannelNames == {"#a", "#A"}
Others == {"someone"}

chanFrame == <<now, cfgVars, connecting, md5_worker, bots, irc_connected, consumer, bot_channel_map,
               command_queue, resume_queue, current_transfers, last_active,
               authenticated, rec, transfers, md5_check_queue, dcc, disk>>

\* IRCBot.on_join
on_join(src, target) ==
    LET c == Lower(target) IN
    /\ Server \in bots /\ irc_connected
    /\ IF src = OwnNick
       THEN /\ c \in join_sent
            /\ join_sent' = join_sent \ {c}
            /\ member' = member \cup {c}
            /\ IF c \notin DOMAIN joined_channels
               THEN /\ joined_channels' = Put(joined_channels, c, now)
                    /\ banned_channels' = banned_channels \ {c}
               ELSE UNCHANGED <<joined_channels, banned_channels>>
       ELSE /\ c \in member
            /\ UNCHANGED <<join_sent, member, joined_channels, banned_channels>>
    /\ log' = [op |-> "on_join", res |-> src]
    /\ irc_out' = <<>> /\ acks' = <<>>
    /\ UNCHANGED <<chanFrame, part_echo>>

\* IRCBot.on_part
on_part(src, target) ==
    LET c == Lower(target) IN
    /\ Server \in bots /\ irc_connected
    /\ IF src = OwnNick
       THEN /\ c \in part_echo
            /\ part_echo' = part_echo \ {c}
            /\ joined_channels' = IF c \in DOMAIN joined_channels
                                  THEN Del(joined_channels, c) ELSE joined_channels
       ELSE /\ c \in member
            /\ UNCHANGED <<part_echo, joined_channels>>
    /\ log' = [op |-> "on_part", res |-> src]
    /\ irc_out' = <<>> /\ acks' = <<>>
    /\ UNCHANGED <<chanFrame, join_sent, member, banned_channels>>

\* IRCBot.on_kick; kicked is the nick the KICK names
on_kick(target, kicked) ==
    LET c == Lower(target) IN
    /\ Server \in bots /\ irc_connected
    /\ c \in member
    /\ member' = IF kicked = OwnNick THEN member \ {c} ELSE member
    /\ joined_channels' = IF c \in DOMAIN joined_channels
                          THEN Del(joined_channels, c) ELSE joined_channels
    /\ log' = [op |-> "on_kick", res |-> kicked]
    /\ irc_out' = <<>> /\ acks' = <<>>
    /\ UNCHANGED <<chanFrame, join_sent, part_echo, banned_channels>>

\* IRCBot.on_bannedfromchan (474)
on_bannedfromchan(name) ==
    LET c == Lower(name) IN
    /\ Server \in bots /\ irc_connected
    /\ c \in join_sent
    /\ join_sent' = join_sent \ {c}
    /\ banned_channels' = banned_channels \cup {c}
    /\ log' = [op |-> "on_bannedfromchan", res |-> c]
    /\ irc_out' = <<>> /\ acks' = <<>>
    /\ UNCHANGED <<chanFrame, member, part_echo, joined_channels>>

\* IRCBot.on_nochanmodes (477)
on_nochanmodes(name) ==
    LET c == Lower(name) IN
    /\ Server \in bots /\ irc_connected
    /\ c \in join_sent
    /\ join_sent' = join_sent \ {c}
    /\ joined_channels' = IF c \in DOMAIN joined_channels
                          THEN Del(joined_channels, c) ELSE joined_channels
    /\ log' = [op |-> "on_nochanmodes", res |-> c]
    /\ irc_out' = <<>> /\ acks' = <<>>
    /\ UNCHANGED <<chanFrame, member, part_echo, banned_channels>>

\* -------------------------------------------------------------- cleanup loop
\* IRCBot.cleanup at time t: part the channels idle for longer than
\* chan_timeout (0: none), then drop the resume offers older than res_timeout.
\* An emptied list stays in resume_queue under its nick.
IdleChannels(t, chan_timeout) ==
    IF chan_timeout # 0
    THEN {c \in DOMAIN joined_channels : t - joined_channels[c] > chan_timeout}
    ELSE {}

\* Variant of SweepResume: a sweep that removes nothing.
SweepResumeNothing(t, res_timeout) == resume_queue

\* the resume sweep of IRCBot.cleanup at time t
SweepResume(t, res_timeout) ==
    [n \in DOMAIN resume_queue |->
        SelectSeq(resume_queue[n], LAMBDA e : ~(t - e.offered_at > res_timeout))]

\* Variant of IsIdle: the test without the look at the command queue.
IsIdleIgnoringQueue(t) ==
    /\ DOMAIN joined_channels = {}
    /\ current_transfers = <<>>
    /\ server_idle_timeout > 0
    /\ last_active + server_idle_timeout < t

\* IRCBotManager._cleanup_bots: is the session idle at time t
IsIdle(t) ==
    /\ DOMAIN joined_channels = {}
    /\ current_transfers = <<>>
    /\ command_queue = <<>>
    /\ server_idle_timeout > 0
    /\ last_active + server_idle_timeout < t

\* Variant of SweepTransfers: records of finished transfers go whatever their age.
SweepTransfersFinished(t) ==
    LET kept == [f \in DOMAIN transfers |->
                    SelectSeq(transfers[f],
                              LAMBDA i : /\ ~(rec[i].start_time + transfer_list_timeout < t)
                                         /\ rec[i].status \notin Terminal)]
    IN  [f \in {f \in DOMAIN kept : kept[f] # <<>>} |-> kept[f]]

\* IRCBotManager._cleanup_transfers at time t
SweepTransfers(t) ==
    LET kept == [f \in DOMAIN transfers |->
                    SelectSeq(transfers[f],
                              LAMBDA i : ~(rec[i].start_time + transfer_list_timeout < t))]
    IN  [f \in {f \in DOMAIN kept : kept[f] # <<>>} |-> kept[f]]

\* IRCBotManager.cleanup: the one-second sleep ends, then _cleanup_bots and
\* _cleanup_transfers run.  _cleanup_bots hands server_idle_timeout to
\* IRCBot.cleanup as its channel timeout.
cleanup ==
    LET t == now + 1
        idle == IdleChannels(t, server_idle_timeout)
    IN
    /\ now < MaxTime
    /\ now' = t
    /\ transfers' = SweepTransfers(t)
    /\ acks' = <<>>
    /\ UNCHANGED <<cfgVars, md5_worker, rec, md5_check_queue, dcc, disk, banned_channels,
                   bot_channel_map, command_queue, current_transfers, authenticated,
                   join_sent>>
    /\ connecting' = IF Server \in bots /\ IsIdle(t) /\ connecting = "registered"
                     THEN "swept" ELSE connecting
    /\ IF Server \notin bots
       THEN /\ log' = [op |-> "cleanup", res |-> "no session"]
            /\ irc_out' = <<>>
            /\ UNCHANGED <<bots, irc_connected, consumer, joined_channels,
                           resume_queue, last_active, member, part_echo>>
       ELSE IF IsIdle(t)
       THEN /\ bots' = bots \ {Server}
            /\ irc_connected' = FALSE
            /\ consumer' = NotStarted
            /\ resume_queue' = Empty
            /\ member' = {} /\ part_echo' = {}
            /\ irc_out' = IF irc_connected
                          THEN <<IrcMsg("QUIT Idle timeout", "", Absent, Absent)>>
                          ELSE <<>>
            /\ log' = [op |-> "cleanup", res |-> "Idle timeout"]
            /\ UNCHANGED <<joined_channels, last_active>>
       ELSE /\ irc_out' = [k \in 1..Cardinality(idle) |->
                              IrcMsg("PART", "idle channel", Absent, Absent)]
            /\ joined_channels' = [c \in DOMAIN joined_channels \ idle |->
                                      joined_channels[c]]
            /\ member' = member \ idle
            /\ part_echo' = part_echo \cup (idle \cap member)
            /\ last_active' = IF idle # {} THEN t ELSE last_active
            /\ resume_queue' = SweepResume(t, resume_timeout)
            /\ log' = [op |-> "cleanup", res |-> "swept"]
            /\ UNCHANGED <<bots, irc_connected, consumer>>

\* ------------------------------------------------------------ specifications
\* The state after IRCBotManager.__init__: no session, no transfer, the clock
\* at 0; the download directory holds, for each file name, nothing or a file of
\* one of `sizes` bytes, and nothing or a partial file (the name with the
\* incomplete suffix) of one of `part_sizes` bytes.
InitFiles(files, sizes, part_sizes, mimes, configs) ==
    /\ now = 0
    /\ incomplete_suffix \in BOOLEAN
    /\ allowed_mimetypes \in mimes
    /\ server_config \in configs
    /\ bots = {}
    /\ irc_connected = FALSE
    /\ consumer = NotStarted
    /\ joined_channels = Empty
    /\ banned_channels = {}
    /\ bot_channel_map = Empty
    /\ command_queue = <<>>
    /\ resume_queue = Empty
    /\ current_transfers = <<>>
    /\ last_active = 0
    /\ authenticated = FALSE
    /\ rec = <<>>
    /\ transfers = Empty
    /\ md5_check_queue = <<>>
    /\ dcc = <<>>
    /\ disk \in {d \in [files \X BOOLEAN -> sizes \cup part_sizes \cup {Absent}] :
                    \A p \in files \X BOOLEAN : d[p] \in (IF p[2] THEN part_sizes ELSE sizes)
                                                \cup {Absent}}
    /\ join_sent = {} /\ member = {} /\ part_echo = {}
    /\ connecting = "no"
    /\ md5_worker = [job |-> Absent, unfinished |-> 0]
    /\ irc_out = <<>> /\ acks = <<>>
    /\ log = [op |-> "init", res |-> "ok"]

\* the same with the file names of Files
InitConfigured(sizes, part_sizes, mimes, configs) ==
    InitFiles(Files, sizes, part_sizes, mimes, configs)

\* a server entry without NickServ password and without channels
PlainServer == [nickserv_password |-> FALSE, channels |-> <<>>]

InitWith(sizes, part_sizes, mimes) ==
    InitConfigured(sizes, part_sizes, mimes, {PlainServer})

\* The data side of the DCC engine: offers into an empty download directory,
\* the data connections, their chunks and their end, and cancellation.
Init == InitWith({}, {}, BOOLEAN)

DataOffers == {Offer(5, "public", "f1", TRUE, 5000, 2)}

Next ==
    \/ \E s \in Servers, ok \in BOOLEAN : get_bot(s, ok)
    \/ \E o \in DataOffers : on_dcc_send("n1", o, FALSE)
    \/ \E i \in 1..MaxRec, ok \in BOOLEAN : dcc_connect(i, ok)
    \/ \E i \in 1..MaxRec, n \in ChunkLens, m, w, a, c \in BOOLEAN :
          on_dccmsg(i, n, m, w, a, c)
    \/ \E i \in 1..MaxRec : peer_close(i)
    \/ \E s \in Servers, n \in Nicks, f \in Files, c \in BOOLEAN :
          cancel_transfer(s, n, f, c)

Spec == Init /\ [][Next]_vars

\* The resume negotiation: offers for files that exist locally, the peer's
\* ACCEPT, and the cleanup loop that ages the pending offers out.
InitialSizes == {0, 1, 4097}
PartSizes == {1}

InitResume == InitWith(InitialSizes, PartSizes, {FALSE})

NextResume ==
    \/ \E s \in Servers, ok \in BOOLEAN : get_bot(s, ok)
    \/ \E o \in GoodOffers : on_dcc_send("n1", o, FALSE)
    \/ \E n \in Nicks, a \in Accepts : on_dcc_accept(n, a)
    \/ cleanup

SpecResume == InitResume /\ [][NextResume]_vars

\* The IRC side of a session: the command consumer, the channel events and
\* the cleanup loop.
InitIrc == InitWith({}, {}, {FALSE})

NextIrc ==
    \/ \E s \in Servers, ok \in BOOLEAN : get_bot(s, ok)
    \/ \E d \in Commands : queue_command(d)
    \/ on_welcome
    \/ consumer_start
    \/ consumer_get
    \/ consumer_poll
    \/ \E src \in {OwnNick} \cup Others, c \in ChannelNames : on_join(src, c)
    \/ \E src \in {OwnNick} \cup Others, c \in ChannelNames : on_part(src, c)
    \/ \E c \in ChannelNames, k \in {OwnNick} \cup Others : on_kick(c, k)
    \/ \E c \in ChannelNames : on_bannedfromchan(c)
    \/ \E c \in ChannelNames : on_nochanmodes(c)
    \/ cleanup

SpecIrc == InitIrc /\ [][NextIrc]_vars

\* The command consumer with up to MaxQueue commands waiting, the server's
\* answers to JOIN, and offers arriving in between.
NextQueue ==
    \/ \E ok \in BOOLEAN : get_bot(Server, ok)
    \/ \E d \in Commands : queue_command(d)
    \/ on_welcome
    \/ consumer_start
    \/ consumer_get
    \/ consumer_poll
    \/ \E c \in ChannelNames : on_join(OwnNick, c)
    \/ \E o \in DataOffers : on_dcc_send("n1", o, FALSE)

SpecQueue == InitIrc /\ [][NextQueue]_vars

\* A server entry with a NickServ password and the channel #a: the login, the
\* consumer's wait for it, and the commands queued meanwhile.
SecuredServer == [nickserv_password |-> TRUE, channels |-> <<"#a">>]
InitAuth == InitConfigured({}, {}, {FALSE}, {SecuredServer})

NextAuth ==
    \/ \E ok \in BOOLEAN : get_bot(Server, ok)
    \/ \E d \in Commands : queue_command(d)
    \/ on_welcome
    \/ on_loggedin
    \/ consumer_start
    \/ \E timed_out \in BOOLEAN : consumer_auth_done(timed_out)
    \/ consumer_get
    \/ consumer_poll
    \/ \E c \in ChannelNames : on_join(OwnNick, c)

\* The event loop runs a task that is ready, and the 10 s of wait_for pass.
SpecAuth ==
    /\ InitAuth /\ [][NextAuth]_vars
    /\ WF_vars(consumer_start)
    /\ WF_vars(\E timed_out \in BOOLEAN : consumer_auth_done(timed_out))

\* A session that joins channels, takes commands and offers, and the sweep that
\* ends it when it is idle.
IdleCommands == {Command("send", <<"#a">>, "n1", "xdcc send 1"),
                 Command("part", <<"#a">>, "", "")}

NextIdle ==
    \/ \E ok \in BOOLEAN : get_bot(Server, ok)
    \/ \E d \in IdleCommands : queue_command(d)
    \/ on_welcome
    \/ consumer_start
    \/ consumer_get
    \/ consumer_poll
    \/ on_join(OwnNick, "#a")
    \/ \E o \in DataOffers : on_dcc_send("n1", o, FALSE)
    \/ \E i \in 1..MaxRec : dcc_connect(i, TRUE)
    \/ \E i \in 1..MaxRec : peer_close(i)
    \/ cleanup

SpecIdle == InitIrc /\ [][NextIdle]_vars

\* Calls of get_bot for both server names, interleaved with the idle sweep and
\* with the commands that keep a session busy.
NextRegistry ==
    \/ \E s \in Servers, ok \in BOOLEAN : get_bot(s, ok)
    \/ \E s \in Servers : get_bot_existing(s)
    \/ \E s \in Servers : get_bot_begin(s)
    \/ \E ok \in BOOLEAN : get_bot_end(ok)
    \/ \E d \in IdleCommands : queue_command(d)
    \/ on_welcome
    \/ consumer_start
    \/ consumer_get
    \/ consumer_poll
    \/ on_join(OwnNick, "#a")
    \/ cleanup

SpecRegistry == InitIrc /\ [][NextRegistry]_vars

\* a server entry whose channel #a asks for the SSL variant of requests
SsendServer == [nickserv_password |-> FALSE, channels |-> <<>>,
                rewrite_to_ssend |-> {"#a"}]
InitMsg == InitConfigured({}, {}, {FALSE}, {PlainServer, SsendServer})

\* msg requests of the control adapter for a registered session
NextMsg ==
    \/ \E ok \in BOOLEAN : get_bot(Server, ok)
    \/ \E u \in MsgUsers, ch \in MsgChannels, m \in Messages : api_msg(u, ch, m)

SpecMsg == InitMsg /\ [][NextMsg]_vars

\* A partial file of 1 byte is resumed; the announcement with the md5 arrives
\* between the RESUME and the peer's ACCEPT, so that the ACCEPT completes the
\* announced record.
InitMd5 == InitWith({1}, {1}, {FALSE})

NextMd5 ==
    \/ \E ok \in BOOLEAN : get_bot(Server, ok)
    \/ \E m \in Md5s : on_privmsg("n1", "f1", m)
    \/ \E o \in DataOffers : on_dcc_send("n1", o, FALSE)
    \/ on_dcc_accept("n1", Accept(TRUE, 5000, 1))
    \/ \E i \in 1..MaxRec, ok \in BOOLEAN : dcc_connect(i, ok)
    \/ \E i \in 1..MaxRec, n \in ChunkLens : on_dccmsg(i, n, TRUE, TRUE, TRUE, FALSE)
    \/ \E i \in 1..MaxRec : peer_close(i)

SpecMd5 == InitMd5 /\ [][NextMd5]_vars

\* Two files are fetched to the end; the sender reports their md5, the MD5
\* worker hashes them, and the history sweep may prune a record in between.
DoneOffers == {Offer(5, "public", f, TRUE, 5000, 2) : f \in {"f1", "f2"}}
InitDone == InitFiles({"f1", "f2"}, {}, {}, {FALSE}, {PlainServer})

NextDone ==
    \/ get_bot(Server, TRUE)
    \/ \E o \in DoneOffers : on_dcc_send("n1", o, FALSE)
    \/ \E i \in 1..MaxRec : dcc_connect(i, TRUE)
    \/ \E i \in 1..MaxRec : on_dccmsg(i, 2, TRUE, TRUE, TRUE, FALSE)
    \/ \E i \in 1..MaxRec : peer_close(i)
    \/ \E n \in Nicks, m \in Md5s : on_privmsg_completed(n, m)
    \/ \E m \in Md5s : on_privmsg("n1", "f1", m)
    \/ md5_get
    \/ \E ok \in BOOLEAN : md5_done(ok)
    \/ cleanup

SpecDone == InitDone /\ [][NextDone]_vars

\* A session that is set up, given commands without channels (the consumer
\* never waits for a join) and offers, and then left alone: commands, IRC
\* events and DCC events happen at time 0 only, and from the first tick of the
\* sweep on nothing but the sweep runs.
NextQuiet ==
    \/ now = 0 /\ \E ok \in BOOLEAN : get_bot(Server, ok)
    \/ now = 0 /\ queue_command(Command("send", <<>>, "n1", "xdcc send 1"))
    \/ now = 0 /\ on_welcome
    \/ now = 0 /\ consumer_start
    \/ now = 0 /\ consumer_get
    \/ now = 0 /\ \E o \in DataOffers : on_dcc_send("n1", o, FALSE)
    \/ now = 0 /\ \E i \in 1..MaxRec, ok \in BOOLEAN : dcc_connect(i, ok)
    \/ now = 0 /\ \E i \in 1..MaxRec : peer_close(i)
    \/ cleanup

\* The cleanup loop's one-second sleep ends again and again.
SpecQuiet == InitIrc /\ [][NextQuiet]_vars /\ WF_vars(cleanup)

\* send commands with and without channels, user and message
SendCommands == {Command("send", <<"#a">>, "n1", "xdcc send 1"),
                 Command("send", <<>>, "n1", "xdcc send 1"),
                 Command("send", <<"#a">>, "", "xdcc send 1"),
                 Command("send", <<"#a">>, "n1", "")}

NextSend ==
    \/ \E ok \in BOOLEAN : get_bot(Server, ok)
    \/ \E d \in SendCommands : queue_command(d)
    \/ on_welcome
    \/ consumer_start
    \/ consumer_get
    \/ consumer_poll
    \/ on_join(OwnNick, "#a")

\* A sleep of the wait loop ends, and a consumer that holds a command goes on.
SpecSend == InitIrc /\ [][NextSend]_vars /\ WF_vars(consumer_poll)

\* A valid offer of 2 bytes and the invalid ones, on a download directory
\* where f1 is absent or has 4097 bytes.
InitOffer == InitWith({4097}, {}, {FALSE})
SomeOffers == DataOffers \cup BadOffers

NextOffer ==
    \/ \E ok \in BOOLEAN : get_bot(Server, ok)
    \/ \E o \in SomeOffers : on_dcc_send("n1", o, FALSE)
    \/ \E i \in 1..MaxRec, ok \in BOOLEAN : dcc_connect(i, ok)
    \/ \E i \in 1..MaxRec, n \in ChunkLens : on_dccmsg(i, n, TRUE, TRUE, TRUE, FALSE)

SpecOffer == InitOffer /\ [][NextOffer]_vars

\* An offer of 4097 bytes for a file that may already be complete on disk, the
\* peer's ACCEPT, and chunks of 1, 2 or 4096 bytes.
TickleOffers == {Offer(5, "public", "f1", TRUE, 5000, 4097)}
TickleAccepts == {Accept(TRUE, 5000, 0), Accept(TRUE, 5000, 1)}
TickleChunks == {1, 2, TickleBytes}

NextTickle ==
    \/ \E ok \in BOOLEAN : get_bot(Server, ok)
    \/ \E o \in TickleOffers : on_dcc_send("n1", o, FALSE)
    \/ \E a \in TickleAccepts : on_dcc_accept("n1", a)
    \/ \E i \in 1..MaxRec, ok \in BOOLEAN : dcc_connect(i, ok)
    \/ \E i \in 1..MaxRec, n \in TickleChunks, a \in BOOLEAN :
          on_dccmsg(i, n, TRUE, TRUE, a, FALSE)
    \/ \E i \in 1..MaxRec : peer_close(i)

SpecTickle == InitOffer /\ [][NextTickle]_vars

\* IRCBotAPI._build_transfer_snapshot: one entry per record of the registry.
\* transfer["bytes_received"] raises KeyError on a dict without that key, the
\* dict on_privmsg appends for an announcement.
build_transfer_snapshot ==
    LET listed == UNION {Range(transfers[f]) : f \in DOMAIN transfers}
    IN  IF \E i \in listed : rec[i].peer_address = "absent"
        THEN [op |-> "snapshot", res |-> "KeyError"]
        ELSE [op |-> "snapshot", res |-> "ok",
              entries |-> [i \in listed |->
                              [filename |-> CHOOSE f \in DOMAIN transfers : i \in Range(transfers[f]),
                               received |-> rec[i].bytes_received + rec[i].offset,
                               status |-> rec[i].status, error |-> rec[i].error]]]

\* The /info endpoint and the websocket broadcast: the snapshot is built.
snapshot ==
    /\ log' = build_transfer_snapshot
    /\ irc_out' = <<>> /\ acks' = <<>>
    /\ UNCHANGED <<now, cfgVars, connecting, md5_worker, sessionVars, rec, transfers,
                   md5_check_queue, dcc, disk>>

\* Announcements of f1 with its MD5 sum, offers of f1, and the transfers that
\* follow, in an empty download directory.
NextAnnounce ==
    \/ \E ok \in BOOLEAN : get_bot(Server, ok)
    \/ \E n \in Nicks, m \in Md5s : on_privmsg(n, "f1", m)
    \/ \E n \in Nicks, o \in DataOffers : on_dcc_send(n, o, FALSE)
    \/ \E i \in 1..MaxRec, ok \in BOOLEAN : dcc_connect(i, ok)
    \/ \E i \in 1..MaxRec, n \in ChunkLens, w \in BOOLEAN :
          on_dccmsg(i, n, TRUE, w, TRUE, FALSE)
    \/ \E i \in 1..MaxRec : peer_close(i)
    \/ snapshot

SpecAnnounce == InitIrc /\ [][NextAnnounce]_vars

\* Transfers on both sides of the 4 GiB line: offers of 2 bytes and of 2^32
\* bytes into an empty download directory.
AckOffers == {Offer(5, "public", "f1", TRUE, 5000, 2), BigOffer(5000, 1, 0)}

NextAck ==
    \/ \E ok \in BOOLEAN : get_bot(Server, ok)
    \/ \E o \in AckOffers : on_dcc_send("n1", o, FALSE)
    \/ \E i \in 1..MaxRec, ok \in BOOLEAN : dcc_connect(i, ok)
    \/ \E i \in 1..MaxRec, n \in ChunkLens, a \in BOOLEAN :
          on_dccmsg(i, n, TRUE, TRUE, a, FALSE)
    \/ \E i \in 1..MaxRec : peer_close(i)

SpecAck == InitIrc /\ [][NextAck]_vars

\* ===================================================================== claims
Registry == UNION {Range(transfers[f]) : f \in DOMAIN transfers}

\* C1: in the manager's transfer registry, for each (server, nick, filename)
\* at most one record has connected = true.
C1_OneConnectedPerNickFile ==
    \A i, j \in Registry :
        (/\ rec[i].connected /\ rec[j].connected
         /\ rec[i].server = rec[j].server
         /\ rec[i].nick = rec[j].nick
         /\ rec[i].filename = rec[j].filename) => i = j

\* C2: for every record opened as a DCC transfer, bytes_received + offset
\* never exceeds size, whatever the peer sends.
C2_BytesWithinSize ==
    \A i \in DOMAIN rec :
        rec[i].size # Absent => rec[i].bytes_received + rec[i].offset <= rec[i].size

\* C3: no channel is in both joined_channels and banned_channels.
C3_JoinedNotBanned == DOMAIN joined_channels \cap banned_channels = {}

\* C4: once a record's status is completed, failed, error or cancelled, no
\* later chunk changes its bytes_received, and neither does the rest of the
\* chunk handler that rejected the chunk (MIME type, write failure) and so put
\* the record in status error.
C4_TerminalBytesFrozen ==
    [][\A i \in DOMAIN rec :
          (\/ rec[i].status \in Terminal
           \/ /\ rec'[i].status = "error"
              /\ rec'[i].error \in {"Invalid MIME type (" \o BadMime \o ")",
                                  "Error writing to file"})
          => rec'[i].bytes_received = rec[i].bytes_received]_vars

\* C5: when cancel_transfer returns True, the matched record reads cancelled /
\* "Cancelled by user" / not connected, its DCC connection has been hung up
\* and is no longer a key of current_transfers, whatever the disconnect
\* handler wrote and whether or not the disconnect raised.
C5_CancelTrue ==
    [][\A s \in Servers, n \in Nicks, f \in Files, c \in BOOLEAN :
          (log' = [op |-> "cancel_transfer", res |-> "True"]
              /\ cancel_transfer(s, n, f, c)) =>
              \E k \in DOMAIN current_transfers :
                  LET i == current_transfers[k] IN
                  /\ rec[i].filename = f /\ rec[i].nick = n
                  /\ rec[i].status = "in_progress"
                  /\ rec'[i].status = "cancelled"
                  /\ rec'[i].error = "Cancelled by user"
                  /\ ~rec'[i].connected
                  /\ dcc'[i] = "closed"
                  /\ i \notin Range(current_transfers')]_vars

\* a cancel has returned True for a transfer whose connection was open
C5_Witness ==
    /\ log = [op |-> "cancel_transfer", res |-> "True"]
    /\ \E i \in DOMAIN rec : rec[i].status = "cancelled" /\ dcc[i] = "closed"
                                /\ i \notin Range(current_transfers)

\* C6: cancel_transfer returns False and leaves current_transfers and the
\* registry as they were when the server has no session or no active transfer
\* of the session has this nick and filename with status in_progress.
C6_CancelFalse ==
    [][\A s \in Servers, n \in Nicks, f \in Files, c \in BOOLEAN :
          (/\ log'.op = "cancel_transfer"
           /\ cancel_transfer(s, n, f, c)
           /\ \/ s \notin bots
              \/ ~\E k \in DOMAIN current_transfers :
                     LET r == rec[current_transfers[k]] IN
                     r.filename = f /\ r.nick = n /\ r.status = "in_progress")
          => /\ log'.res = "False"
             /\ UNCHANGED <<current_transfers, rec, transfers, dcc>>]_vars

\* a cancel has returned False although the session has an active transfer
C6_Witness ==
    /\ log = [op |-> "cancel_transfer", res |-> "False"]
    /\ Server \in bots
    /\ current_transfers # <<>>

\* C7: a valid offer for a file that exists locally with 0 < local_size <
\* remote size makes the session send exactly one DCC RESUME with the offer's
\* port and local_size and append exactly one entry (offset = local_size) to
\* resume_queue[nick], and opens no data connection; a data connection at a
\* non-zero offset is only ever opened by an ACCEPT that matches a queued entry.
C7_ResumeOffer ==
    [][/\ \A n \in Nicks, o \in GoodOffers, ssl \in BOOLEAN :
            LET lf == LocalFiles(o.fname)
                k == FirstExisting(o.fname)
                q == Get(resume_queue, n, <<>>)
            IN  (/\ log'.op = "on_dcc_send"
                 /\ on_dcc_send(n, o, ssl)
                 /\ DupCheck(o.fname, o.size_hi, o.size) = "ok"
                 /\ k # 0 /\ 0 < disk[lf[k]] /\ disk[lf[k]] < o.size)
                => /\ irc_out' = <<IrcMsg("DCC RESUME", n, o.port, disk[lf[k]])>>
                   /\ Len(resume_queue'[n]) = Len(q) + 1
                   /\ SubSeq(resume_queue'[n], 1, Len(q)) = q
                   /\ LET e == resume_queue'[n][Len(q) + 1] IN
                      /\ e.peer_port = o.port /\ e.local_size = disk[lf[k]]
                      /\ e.filename = o.fname /\ e.size = o.size
                   /\ \A m \in DOMAIN resume_queue \ {n} :
                         resume_queue'[m] = resume_queue[m]
                   /\ UNCHANGED <<rec, current_transfers, dcc, transfers>>
       /\ \A i \in DOMAIN rec' \ DOMAIN rec :
             rec'[i].offset # 0 =>
                /\ log'.op = "on_dcc_accept"
                /\ \E k \in DOMAIN resume_queue[rec'[i].nick] :
                      LET e == resume_queue[rec'[i].nick][k] IN
                      e.peer_port = rec'[i].peer_port /\ e.local_size = rec'[i].offset
      ]_vars

\* a RESUME at a position inside the file has been sent and its entry is queued
C7_Witness ==
    /\ log = [op |-> "on_dcc_send", res |-> "resume"]
    /\ \E n \in DOMAIN resume_queue : \E k \in DOMAIN resume_queue[n] :
          LET e == resume_queue[n][k] IN
          /\ 0 < e.local_size /\ e.local_size < e.size /\ ~e.completed
          /\ irc_out = <<IrcMsg("DCC RESUME", n, e.peer_port, e.local_size)>>

\* C8: for every entry queued under a nick, an ACCEPT from that nick with the
\* entry's port and offset removes exactly that entry and opens the data
\* connection at the recorded offset.
C8_AcceptConsumes ==
    [][\A n \in Nicks, a \in Accepts :
          (/\ log'.op = "on_dcc_accept"
           /\ on_dcc_accept(n, a)
           /\ a.matched
           /\ n \in DOMAIN resume_queue
           /\ \E k \in DOMAIN resume_queue[n] :
                 /\ resume_queue[n][k].peer_port = a.port
                 /\ resume_queue[n][k].local_size = a.pos)
          => \E k \in DOMAIN resume_queue[n] :
                /\ resume_queue[n][k].peer_port = a.port
                /\ resume_queue[n][k].local_size = a.pos
                /\ Get(resume_queue', n, <<>>) = RemoveAt(resume_queue[n], k)
                /\ \E i \in DOMAIN rec' :
                      /\ dcc'[i] = "new" /\ i \in Range(current_transfers')
                      /\ i \notin Range(current_transfers)
                      /\ rec'[i].offset = resume_queue[n][k].local_size
                      /\ rec'[i].peer_port = a.port]_vars

\* C9: an ACCEPT from a nick without resume entries, or whose port and
\* position match no queued entry of the nick, leaves resume_queue,
\* current_transfers and the registry unchanged and opens no connection.
C9_AcceptNoMatch ==
    [][\A n \in Nicks, a \in Accepts :
          (/\ log'.op = "on_dcc_accept"
           /\ on_dcc_accept(n, a)
           /\ ~\E k \in DOMAIN Get(resume_queue, n, <<>>) :
                  /\ resume_queue[n][k].peer_port = a.port
                  /\ resume_queue[n][k].local_size = a.pos)
          => UNCHANGED <<resume_queue, current_transfers, rec, transfers, dcc>>]_vars

\* an ACCEPT with a wrong position has been dropped while an entry was queued
C9_Witness ==
    /\ log = [op |-> "on_dcc_accept", res |-> "unknown file"]
    /\ \E n \in DOMAIN resume_queue : resume_queue[n] # <<>>

\* C10: while the session exists, no entry stays in resume_queue for longer
\* than resume_timeout after its offered_at: the sweep of the cleanup loop has
\* removed it by then.
C10_ResumeSwept ==
    Server \in bots =>
        \A n \in DOMAIN resume_queue : \A k \in DOMAIN resume_queue[n] :
            now - resume_queue[n][k].offered_at <= resume_timeout

\* the sweep has emptied a nick's list (an ACCEPT that empties it deletes the key)
C10_Witness ==
    /\ log = [op |-> "cleanup", res |-> "swept"]
    /\ now > resume_timeout
    /\ \E n \in DOMAIN resume_queue : resume_queue[n] = <<>>

\* C11: every chunk received on a tracked connection (and not rejected for its
\* MIME type) is followed by exactly one ack, sent after the chunk has been
\* appended to the file; the ack carries offset plus the total length of the
\* chunks so far.
C11_AckAfterAppend ==
    [][\A i \in 1..MaxRec, n \in ChunkLens, m, w, a, c \in BOOLEAN :
          (/\ log'.op = "on_dccmsg" /\ log'.res # "invalid mime"
           /\ on_dccmsg(i, n, m, w, a, c)
           /\ i \in Range(current_transfers))
          => /\ Len(acks') = 1
             /\ acks'[1].value = rec[i].offset + rec[i].bytes_received + n
             /\ ~rec[i].completed =>
                   disk'[rec'[i].file_path] =
                      (IF disk[rec[i].file_path] = Absent THEN 0
                       ELSE disk[rec[i].file_path]) + n]_vars
\* C12: every ack of a transfer is 8 bytes wide when the transfer's declared
\* size is at least 2^32 and 4 bytes wide otherwise, and a transfer's declared
\* size, hence its ack width, never changes.
C12_AckWidth ==
    [][/\ \A i \in DOMAIN rec :
             rec'[i].size_hi = rec[i].size_hi /\ rec'[i].size = rec[i].size
       /\ \A i \in 1..MaxRec, n \in ChunkLens, m, w, a, c \in BOOLEAN :
             (/\ log'.op = "on_dccmsg"
              /\ on_dccmsg(i, n, m, w, a, c)
              /\ acks' # <<>>)
             => \A k \in DOMAIN acks' :
                   acks'[k].width = IF rec[i].size_hi >= 1 THEN 8 ELSE 4]_vars

\* a second ack of a transfer of 2^32 bytes or more has been sent, 8 bytes wide
C12_Witness ==
    /\ log.op = "on_dccmsg" /\ acks # <<>> /\ acks[1].width = 8
    /\ \E i \in DOMAIN rec : rec[i].size_hi >= 1 /\ rec[i].bytes_received >= 2
                                /\ acks[1].value = rec[i].bytes_received

\* C13: an offer that fails a validation step (fewer than 5 arguments, invalid
\* address, private address while allow_private_ips is false, invalid file
\* name, port outside 1..65535, size outside 1..max_file_size, duplicate of a
\* connected transfer, local file larger than the remote one) leaves the
\* registry, resume_queue and current_transfers unchanged, sends no CTCP reply
\* and opens no connection.
C13_RejectedOfferFrame ==
    [][\A o \in SomeOffers :
          (/\ log'.op = "on_dcc_send"
           /\ on_dcc_send("n1", o, FALSE)
           /\ \/ o.argc < 5
              \/ o.addr = "invalid"
              \/ o.addr = "private" /\ ~allow_private_ips
              \/ o.fname \notin Files
              \/ o.numeric /\ (o.port < 1 \/ o.port > 65535)
              \/ o.numeric /\ o.size_hi = 0 /\ o.size < 1
              \/ o.numeric /\ o.size_hi > max_file_size_hi
              \/ o.numeric /\ o.size_hi = max_file_size_hi /\ o.size > max_file_size
              \/ \E i \in DOMAIN rec :
                    /\ rec[i].filename = o.fname /\ rec[i].connected
                    /\ rec[i].size = o.size /\ rec[i].size_hi = o.size_hi
              \/ /\ FirstExisting(o.fname) # 0 /\ o.size_hi = 0
                 /\ disk[LocalFiles(o.fname)[FirstExisting(o.fname)]] > o.size)
          => /\ UNCHANGED <<rec, transfers, resume_queue, current_transfers, dcc>>
             /\ irc_out' = <<>>]_vars

\* an offer has just been rejected as the duplicate of a connected transfer
C13_Witness ==
    /\ log = [op |-> "on_dcc_send", res |-> "already in progress"]
    /\ \E i \in DOMAIN rec : rec[i].connected /\ i \in Range(current_transfers)

\* C14: with allowed_mimetypes non-empty, the first chunk of a transfer at
\* offset 0 whose MIME type is not allowed closes the DCC connection, leaves
\* the record with status error and error "Invalid MIME type (<type>)",
\* removes the connection from current_transfers, appends nothing to any file
\* and sends no ack.
C14_MimeReject ==
    [][\A i \in 1..MaxRec, n \in ChunkLens, w, a \in BOOLEAN :
          (/\ log'.op = "on_dccmsg"
           /\ on_dccmsg(i, n, FALSE, w, a, FALSE)
           /\ i \in Range(current_transfers)
           /\ allowed_mimetypes
           /\ rec[i].offset = 0 /\ rec[i].bytes_received = 0)
          => /\ dcc'[i] = "closed"
             /\ rec'[i].status = "error"
             /\ rec'[i].error = "Invalid MIME type (application/x-dosexec)"
             /\ ~rec'[i].connected
             /\ i \notin Range(current_transfers')
             /\ \A q \in Paths : disk'[q] \in {Absent} \cup {disk[x] : x \in Paths}
             /\ acks' = <<>>]_vars

\* a first chunk has just been rejected for its type
C14_Witness ==
    /\ log = [op |-> "on_dccmsg", res |-> "invalid mime"]
    /\ \E i \in DOMAIN rec : rec[i].status = "error" /\ dcc[i] = "closed"
                                /\ rec[i].bytes_received = 0

C16_CompletedResume ==
    [][/\ \A o \in TickleOffers :
             (/\ log'.op = "on_dcc_send" /\ log'.res = "resume"
              /\ on_dcc_send("n1", o, FALSE)
              /\ disk[Path(o.fname, FALSE)] = o.size)
             => /\ irc_out' = <<IrcMsg("DCC RESUME", "n1", o.port, o.size - 4096)>>
                /\ LET q == resume_queue'["n1"] IN q[Len(q)].completed
       /\ \A i \in 1..MaxRec, n \in TickleChunks, a \in BOOLEAN :
             (/\ log'.op = "on_dccmsg"
              /\ on_dccmsg(i, n, TRUE, TRUE, a, FALSE)
              /\ i \in Range(current_transfers)
              /\ rec[i].completed /\ rec[i].offset = rec[i].size - 4096)
             => /\ rec'[i].bytes_received = rec[i].bytes_received + n
                /\ Len(acks') = 1
                /\ acks'[1].value = rec[i].offset + rec[i].bytes_received + n
                /\ acks'[1].value <= rec[i].size
                /\ disk' = disk
       /\ \A i \in 1..MaxRec :
             (/\ log'.op = "on_dcc_disconnect"
              /\ peer_close(i)
              /\ i \in Range(current_transfers)
              /\ rec[i].completed /\ rec[i].offset = rec[i].size - 4096)
             => rec'[i].status = "completed" /\ disk' = disk]_vars

\* C17: a DCC SEND that follows, within 30 s, an announcement with an MD5 sum
\* from the same nick on the same server for the same file name is handled
\* without error, leaves exactly one record for that transfer, carrying the
\* announced md5 and the DCC fields, and the data connection is opened.
C17_AnnounceThenSend ==
    [][\A n \in Nicks, o \in DataOffers :
          (/\ log'.op = "on_dcc_send"
           /\ on_dcc_send(n, o, FALSE)
           /\ \E k \in Range(Get(transfers, o.fname, <<>>)) :
                 /\ rec[k].nick = n /\ rec[k].server = Server
                 /\ rec[k].md5 \in Md5s /\ rec[k].peer_address = "absent"
                 /\ rec[k].start_time >= now - 30
           /\ \A k \in DOMAIN rec : rec[k].nick = n => rec[k].peer_address = "absent")
          => /\ log'.res = "connect"
             /\ \E k \in Range(transfers'[o.fname]) :
                   /\ rec'[k].nick = n /\ rec'[k].md5 \in Md5s
                   /\ rec'[k].peer_address = o.addr /\ rec'[k].peer_port = o.port
                   /\ rec'[k].size = o.size /\ rec'[k].filename = o.fname
                   /\ k \in Range(current_transfers') /\ dcc'[k] = "new"
                   /\ \A j \in Range(transfers'[o.fname]) :
                         (rec'[j].nick = n /\ rec'[j].peer_address # "absent") => j = k
                   /\ Len(rec') = Len(rec)]_vars

\* C18: when the command consumer dequeues a join command it issues a JOIN for
\* every listed channel that is not joined yet and for every companion in
\* also_join, and it polls joined_channels at most 10 times before it takes
\* the next command.
C18_JoinCommand ==
    [][(/\ log'.op = "process_command_queue" /\ log'.res = "join"
        /\ consumer_get)
       => /\ \A c \in Range(WithCompanions(Head(command_queue).channels)) :
                c \notin DOMAIN joined_channels =>
                   \E k \in DOMAIN irc_out' :
                      irc_out'[k] = IrcMsg("JOIN", c, Absent, Absent)
          /\ consumer'.retry <= 10]_vars

\* C19: within one session the queued commands are processed one at a time in
\* the order they were queued: a command is taken only from the head of the
\* queue and only when the command before it, its join wait included, has
\* finished; while a command waits for its joins, the only command effects
\* (JOIN, PART, PRIVMSG, channel-map update) are its own, and IRC and DCC
\* events are handled in between without touching the queue's order.
C19_SerialFifo ==
    [][/\ command_queue' # command_queue =>
             \/ \E d \in Commands : command_queue' = Append(command_queue, d)
             \/ /\ command_queue # <<>> /\ command_queue' = Tail(command_queue)
                /\ consumer.pc = "get"
                /\ log' = [op |-> "process_command_queue",
                           res |-> Head(command_queue).command]
       /\ consumer.pc = "wait" =>
             /\ log'.op # "process_command_queue"
             /\ bot_channel_map' # bot_channel_map =>
                   /\ log'.op = "_join_channels" /\ consumer'.pc = "get"
                   /\ bot_channel_map' =
                         Put(bot_channel_map, consumer.data.user,
                             Get(bot_channel_map, consumer.data.user, {})
                                \cup Range(consumer.data.channels))
             /\ (\E k \in DOMAIN irc_out' :
                    irc_out'[k].kind \in {"JOIN", "PART", "PRIVMSG"}) =>
                   /\ log'.op = "_join_channels" /\ consumer'.pc = "get"
                   /\ irc_out' = <<IrcMsg("PRIVMSG", consumer.data.user, Absent, Absent)>>
       /\ log'.op \in {"process_command_queue", "_join_channels"} =>
             consumer.pc \in {"start", "get", "wait"}]_vars

\* a send command waits for its joins with a part command queued behind it,
\* which was queued after it
C19_Witness ==
    /\ consumer.pc = "wait" /\ consumer.data.command = "send"
    /\ consumer.retry >= 1
    /\ command_queue # <<>> /\ Head(command_queue).command = "part"

\* C20: with a NickServ password configured, the command consumer processes
\* no queued command and joins no configured channel before the login has set
\* authenticated or the 10 s wait has timed out, in both cases it eventually
\* starts processing, and authenticated never goes from true back to false.
C20_AuthGate ==
    /\ [][(/\ nickserv_password
            /\ \/ log'.op = "process_command_queue"
                     /\ log'.res # "waiting for NickServ"
               \/ \E k \in DOMAIN irc_out' : irc_out'[k].kind = "JOIN")
           => \/ authenticated
              \/ consumer.pc = "auth" /\ consumer_auth_done(TRUE)
              \/ consumer.pc \in {"get", "wait"}]_vars
    /\ (consumer.pc \in {"start", "auth"}) ~> (consumer.pc \in {"get", "wait"})
    /\ [][authenticated => authenticated']_vars

\* the consumer has started after the wait timed out, without a login
C20_Witness ==
    /\ nickserv_password /\ ~authenticated
    /\ log = [op |-> "process_command_queue", res |-> "started"]
    /\ consumer.pc = "get" /\ "#a" \in join_sent

\* C21: the idle sweep ends a session (disconnect with reason "Idle timeout",
\* removal from the registry) only if at that moment it has no joined channel,
\* no current transfer, no queued command and a last_active older than
\* server_idle_timeout; no other step removes a session, so a session with a
\* joined channel, an active transfer or a pending command is never swept.
C21_IdleSweep ==
    [][(Server \in bots /\ Server \notin bots')
       => /\ log' = [op |-> "cleanup", res |-> "Idle timeout"]
          /\ DOMAIN joined_channels = {}
          /\ current_transfers = <<>>
          /\ command_queue = <<>>
          /\ now' - last_active > server_idle_timeout
          /\ irc_connected =>
                irc_out' = <<IrcMsg("QUIT Idle timeout", "", Absent, Absent)>>]_vars

\* a session that had been connected and had taken an offer has been swept
C21_Witness ==
    /\ log = [op |-> "cleanup", res |-> "Idle timeout"]
    /\ Server \notin bots
    /\ irc_out # <<>>
    /\ rec # <<>>

\* C22: the registry holds at most one session per server, and only for a
\* configured server.  Over every interleaving of get_bot calls and idle
\* sweeps: a session appears only in a get_bot step for a server that had
\* none, and that step makes the one connect() call of the session; a call for
\* a server that has a session leaves the session, its connection and the
\* pending connect as they are; a call for a server without configuration
\* reports "No configuration found for server" and registers nothing.
C22_OneSessionPerServer ==
    [][/\ bots' \subseteq {Server}
       /\ (Server \in bots' /\ Server \notin bots)
             => /\ log'.op = "get_bot"
                /\ log'.res \in {"connecting", "connected", "connection error"}
       /\ (connecting' = "registered" /\ connecting # "registered")
             => Server \notin bots /\ Server \in bots'
       /\ (irc_connected' /\ ~irc_connected)
             => /\ log'.op = "get_bot"
                /\ \/ Server \notin bots
                   \/ connecting = "registered" /\ connecting' = "no"
       /\ (log' = [op |-> "get_bot", res |-> "existing"])
             => /\ Server \in bots
                /\ UNCHANGED <<sessionVars, connecting>>
       /\ (log' = [op |-> "get_bot", res |-> "No configuration found for server"])
             => UNCHANGED <<sessionVars, connecting>>]_vars

\* while a call is still suspended in connect() for a bot the sweep removed,
\* a newer session was registered and connected, and a later call found it
C22_Witness ==
    /\ log = [op |-> "get_bot", res |-> "existing"]
    /\ Server \in bots /\ irc_connected
    /\ connecting = "swept"

\* C23: a message that starts with "xdcc send " or "xdcc batch " in any letter
\* case, for a target nick in ssend_map or with a destination channel in
\* rewrite_to_ssend, is enqueued starting with "xdcc ssend " / "xdcc sbatch "
\* (compared without regard to letter case) followed by the remainder as it
\* was; every other message is enqueued as it was (surrounding blanks aside).
C23_SsendRewrite ==
    [][\A u \in MsgUsers, ch \in MsgChannels, m \in Messages :
          api_msg(u, ch, m) =>
             LET out == command_queue'[Len(command_queue')].message
                 n == PrefixLen(m, TRUE)
                 wanted == \/ Lower(u) \in ssend_map
                           \/ \E c \in Range(ch) : Lower(c) \in rewrite_to_ssend
             IN  IF n > 0 /\ wanted
                 THEN /\ Len(out) > n
                      /\ LowerText(SubSeq(out, 1, n + 1))
                           = SubSeq(LowerText(m), 1, 5) \o <<"s">>
                               \o SubSeq(LowerText(m), 6, n)
                      /\ SubSeq(out, n + 2, Len(out)) = SubSeq(m, n + 1, Len(m))
                 ELSE out = Strip(m)]_vars

\* C24: a failed DCC connect is recorded and goes no further.  The step that
\* ends the connect attempt in failure sets the record's status to error with
\* the reason in error, leaves the connection not connected, and changes
\* neither the session's IRC state nor any other transfer; from then on the
\* connection stays without a transport, so no chunk is delivered on it: the
\* record keeps bytes_received 0 and connected false.
C24_ConnectFailure ==
    [][/\ \A i \in DOMAIN dcc :
             (dcc[i] = "new" /\ dcc'[i] = "failed")
                => /\ rec'[i].status = "error"
                   /\ rec'[i].error \notin {"absent", ""}
                   /\ ~rec'[i].connected
                   /\ UNCHANGED <<ircVars, joined_channels, resume_queue,
                                  current_transfers, last_active, disk>>
                   /\ \A j \in DOMAIN rec \ {i} : rec'[j] = rec[j] /\ dcc'[j] = dcc[j]
       /\ \A i \in DOMAIN dcc :
             dcc[i] = "failed"
                => /\ dcc'[i] \in {"failed", "closed"}
                   /\ rec'[i].bytes_received = 0
                   /\ ~rec'[i].connected]_vars

\* a connect has failed for one transfer while another one is receiving
C24_Witness ==
    \E i, j \in DOMAIN dcc :
        /\ dcc[i] = "failed" /\ rec[i].status = "error"
        /\ dcc[j] = "open" /\ rec[j].bytes_received > 0

C26_ResumeNeedsData ==
    [][\A n \in Nicks, o \in GoodOffers, ssl \in BOOLEAN :
          (log'.op = "on_dcc_send" /\ on_dcc_send(n, o, ssl))
             => LET lf == LocalFiles(o.fname)
                    has_data == \E k \in DOMAIN lf :
                                   disk[lf[k]] # Absent /\ disk[lf[k]] > 0
                IN  /\ (resume_queue' # resume_queue \/ irc_out' # <<>>) => has_data
                    /\ (log'.res \in {"resume", "connect"} /\ ~has_data)
                          => /\ resume_queue' = resume_queue
                             /\ irc_out' = <<>>
                             /\ Len(rec') = Len(rec) + 1
                             /\ rec'[Len(rec')].offset = 0
                             /\ dcc'[Len(rec')] = "new"]_vars

\* C27: when the append of a chunk fails, the transfer ends with status error
\* and an error text naming the write, connected false, the connection closed
\* and out of current_transfers; the file is not written again (no retry), and
\* the status is still error once the disconnect event has been handled.
C27_WriteFailure ==
    [][\A i \in DOMAIN rec, n \in ChunkLens, m, a \in BOOLEAN :
          (/\ log' = [op |-> "on_dccmsg", res |-> "write error"]
           /\ on_dccmsg(i, n, m, FALSE, a, FALSE))
             => /\ rec'[i].status = "error"
                /\ rec'[i].error = "Error writing to file"
                /\ ~rec'[i].connected
                /\ dcc'[i] = "closed"
                /\ i \notin Range(current_transfers')
                /\ disk' = disk]_vars

\* C28: when a tracked connection is closed by the peer while the file has its
\* declared length and the record carries an announced md5, the disconnect
\* handler ends without an exception: the record is put on the MD5 queue once,
\* a file with the incomplete suffix is renamed, and the connection leaves
\* current_transfers.
C28_Md5Enqueued ==
    [][\A i \in DOMAIN rec :
          (/\ log'.op = "on_dcc_disconnect"
           /\ peer_close(i)
           /\ i \in Range(current_transfers)
           /\ rec[i].md5 # "absent"
           /\ rec[i].size_hi = 0 /\ disk[rec[i].file_path] = rec[i].size)
             => LET p == rec[i].file_path IN
                /\ log'.res = "completed"
                /\ md5_check_queue' = Append(md5_check_queue, i)
                /\ (incomplete_suffix /\ p[2])
                      => /\ disk'[p] = Absent
                         /\ disk'[Path(p[1], FALSE)] = disk[p]
                /\ i \notin Range(current_transfers')]_vars

\* C29: the per-session cleanup parts a joined channel exactly when its
\* last-active time lies more than channel_idle_timeout back (never when that
\* timeout is 0), whatever server_idle_timeout is, and leaves every other
\* channel joined.
C29_ChannelIdle ==
    [][log' = [op |-> "cleanup", res |-> "swept"] =>
          LET idle == IF channel_idle_timeout = 0 THEN {}
                      ELSE {c \in DOMAIN joined_channels :
                               now' - joined_channels[c] > channel_idle_timeout}
          IN  /\ DOMAIN joined_channels' = DOMAIN joined_channels \ idle
              /\ \A c \in DOMAIN joined_channels' :
                    joined_channels'[c] = joined_channels[c]]_vars

C31_KickFrame ==
    [][/\ \A c \in ChannelNames :
             (log' = [op |-> "on_kick", res |-> OwnNick] /\ on_kick(c, OwnNick))
                => /\ Lower(c) \notin DOMAIN joined_channels'
                   /\ \A d \in DOMAIN joined_channels \ {Lower(c)} :
                         d \in DOMAIN joined_channels'
                   /\ UNCHANGED banned_channels
       /\ (log'.op \in {"on_kick", "on_join", "on_part"} /\ log'.res \in Others)
             => UNCHANGED <<joined_channels, banned_channels>>]_vars

\* C32: after a JOIN of the agent's own nick for channel c, whatever the state
\* before (c marked banned by a 474, c already listed in joined_channels),
\* c is in joined_channels and not in banned_channels.
C32_SelfJoin ==
    [][\A c \in ChannelNames :
          (log' = [op |-> "on_join", res |-> OwnNick] /\ on_join(OwnNick, c))
             => /\ Lower(c) \in DOMAIN joined_channels'
                /\ Lower(c) \notin banned_channels']_vars

\* C33: a "Transfer Completed ... md5sum" message of a sender attaches the md5
\* to at most one record and queues at most one MD5 job, for a transfer of that
\* sender on this server that completed within the window and has no md5;
\* every other record stays as it is.
C33_OneMd5Job ==
    [][\A n \in Nicks, m \in Md5s :
          (log' = [op |-> "on_privmsg", res |-> "completed"]
           /\ on_privmsg_completed(n, m))
             => LET changed == {i \in DOMAIN rec : rec'[i] # rec[i]} IN
                /\ Cardinality(changed) <= 1
                /\ Len(md5_check_queue') <= Len(md5_check_queue) + 1
                /\ \A i \in changed :
                      /\ rec[i].nick = n /\ rec[i].server = Server
                      /\ rec[i].status = "completed" /\ rec[i].md5 = "absent"
                      /\ rec'[i] = [rec[i] EXCEPT !.md5 = m]
                      /\ md5_check_queue' = Append(md5_check_queue, i)]_vars

\* C34: the MD5 worker marks every job it has taken from the queue as done
\* exactly once, whether the hashing succeeds or raises: the queue's count of
\* unfinished jobs is always the number of queued jobs plus the one being
\* hashed, and each end of a job lowers it by one.  After the end of a job,
\* successful or not, the worker is back at the queue.  The only change to the
\* registry is file_md5 of the job's own record, and only while that record is
\* still listed under its file name.
C34_WorkerMarksDone ==
    [][/\ md5_worker'.unfinished = Len(md5_check_queue')
                                      + (IF md5_worker'.job = Absent THEN 0 ELSE 1)
       /\ (log'.op = "check_queue_processor" /\ md5_worker.job # Absent
              /\ md5_worker'.job = Absent)
           => /\ md5_worker'.unfinished = md5_worker.unfinished - 1
              /\ md5_check_queue' = md5_check_queue
              /\ transfers' = transfers
              /\ \A i \in DOMAIN rec :
                    rec'[i] # rec[i]
                    => /\ i = md5_worker.job
                       /\ i \in Range(Get(transfers, rec[i].filename, <<>>))
                       /\ rec' = [rec EXCEPT ![i].file_md5 = "digest"]]_vars

\* a job has ended without a digest (the hashing raised, or its record was not
\* found) and the worker has gone on to the next one
C34_Witness ==
    /\ log.op = "check_queue_processor" /\ log.res = "hashing"
    /\ md5_worker.job # Absent
    /\ \E i \in DOMAIN rec : i # md5_worker.job /\ rec[i].md5 # "absent"
                               /\ rec[i].file_md5 = "absent"
                               /\ i \notin Range(md5_check_queue)

\* C35: every record held in current_transfers has status started or
\* in_progress: a transfer that has reached completed, failed, error or
\* cancelled is no longer tracked when its handler has returned.
C35_TrackedAreLive ==
    \A i \in Range(current_transfers) : rec[i].status \in {"started", "in_progress"}

\* C36: under fair scheduling of the cleanup loop, a session that gets no
\* further commands or events (the clock has left 0), whose own tasks have
\* come to rest (no consumer step is ready and no welcome is awaited with
\* commands queued) and that tracks no transfer in status started or
\* in_progress, is eventually removed from the registry.
C36_IdleSessionRemoved ==
    (/\ now > 0 /\ Server \in bots
     /\ \A i \in Range(current_transfers) : rec[i].status \notin {"started", "in_progress"}
     /\ consumer.pc \notin {"start", "wait", "auth"}
     /\ (consumer.pc = "get" => command_queue = <<>>)
     /\ (consumer.pc = "none" /\ irc_connected => command_queue = <<>>))
    ~> (Server \notin bots)

\* C37: a channel is in joined_channels only while the agent is in it, that
\* is after a JOIN of the own nick for it and before the next PART or KICK of
\* the own nick, 477 or part of it: every channel of joined_channels is one
\* the IRC server has the agent in.
C37_JoinedMeansJoined == DOMAIN joined_channels \subseteq member

\* C38: the position sent in a DCC RESUME, the offset stored in a resume entry
\* and the offset of a transfer record all satisfy 0 <= offset < size.
C38_OffsetInRange ==
    /\ \A m \in Range(irc_out) : m.kind = "DCC RESUME" => m.pos >= 0
    /\ \A n \in DOMAIN resume_queue : \A e \in Range(resume_queue[n]) :
          /\ e.local_size >= 0
          /\ e.size_hi > 0 \/ e.local_size < e.size
    /\ \A i \in DOMAIN rec :
          rec[i].size # Absent
          => /\ rec[i].offset >= 0
             /\ rec[i].size_hi > 0 \/ rec[i].offset < rec[i].size

\* C39: every record that current_transfers refers to and whose transfer is in
\* flight (status started or in_progress) is listed in the registry under its
\* file name: the history sweep does not evict it.
C39_InFlightListed ==
    \A i \in Range(current_transfers) :
        rec[i].status \in {"started", "in_progress"}
        => i \in Range(Get(transfers, rec[i].filename, <<>>))

\* C40: in every reachable state of the registry the snapshot succeeds and has
\* one entry per registry record, with that record's status and error.
C40_SnapshotSucceeds ==
    log.op = "snapshot"
    => /\ log.res = "ok"
       /\ DOMAIN log.entries = UNION {Range(transfers[f]) : f \in DOMAIN transfers}
       /\ \A i \in DOMAIN log.entries :
             /\ log.entries[i].status = rec[i].status
             /\ log.entries[i].error = rec[i].error

=============================================================================
